---- MODULE Spec2Model ----
(***************************************************************************)
(* Matching and scoring engine of matchagig-backend: the /v1/match route   *)
(* (gates, score composition, term overlaps) and the embedding cache.      *)
(*                                                                         *)
(* Strings are sequences of one-character strings, so that the string      *)
(* functions of the code (toLowerCase, replace, trim, includes) are        *)
(* computed and not assumed.  Numbers that are fractions in the code       *)
(* (cosines, thresholds) are kept exact: a cosine is the pair              *)
(* [dot, nn] standing for dot / sqrt(nn).                                  *)
(***************************************************************************)
EXTENDS Integers, Sequences, FiniteSets, TLC

VARIABLES
    pc,         \* position of the match request handler
    req,        \* the request being served: route version, stored overview, stored jd
    resp,       \* the reply sent for it (NoResp until reply.send)
    call,       \* bookkeeping of the handler: embedding fetches made / failed, replies sent
    cfg,        \* the values of config/match-weights.js the deployment runs with
    now,        \* Date.now(), counted in half days
    clock,      \* order of cache events (starts and completions of getEmbedding calls)
    cache,      \* lib/embeddings.js: cache (cacheKey -> {vec, at, model})
    embedCache, \* routes/match.js: embedCache (key -> {vec, model, at})
    gets,       \* the getEmbedding calls made so far, with their outcome
    provCalls   \* number of openai.embeddings.create calls made, per cache key

vars == <<pc, req, resp, call, cfg, now, clock, cache, embedCache, gets, provCalls>>

routeVars == <<pc, req, resp, call, cfg>>
cacheVars == <<now, clock, cache, embedCache, gets, provCalls>>

-----------------------------------------------------------------------------
(* JavaScript values *)

NULL == -1                  \* null / undefined of a numeric field
NULLSTR == <<"null">>       \* null / undefined of a string field
EMPTY == <<>>               \* ''

Min(a, b) == IF a < b THEN a ELSE b
Max(a, b) == IF a > b THEN a ELSE b
Abs(a) == IF a < 0 THEN -a ELSE a

UpperChars == <<"A","B","C","D","E","F","G","H","I","J","K","L","M",
                "N","O","P","Q","R","S","T","U","V","W","X","Y","Z">>
LowerChars == <<"a","b","c","d","e","f","g","h","i","j","k","l","m",
                "n","o","p","q","r","s","t","u","v","w","x","y","z">>
Digits == {"0","1","2","3","4","5","6","7","8","9"}
LowerSet == {LowerChars[i] : i \in 1..26}

\* the lower-case letter of each upper-case letter
LowerOf == [c \in {UpperChars[i] : i \in 1..26} |->
               LowerChars[CHOOSE i \in 1..26 : UpperChars[i] = c]]

toLowerChar(c) == IF c \in DOMAIN LowerOf THEN LowerOf[c] ELSE c

\* String.prototype.toLowerCase
toLowerCase(s) == [i \in 1..Len(s) |-> toLowerChar(s[i])]

IsSpace(c) == c \in {" ", "\t", "\n"}

RECURSIVE trimStart(_)
trimStart(s) == IF s # <<>> /\ IsSpace(Head(s)) THEN trimStart(Tail(s)) ELSE s

RECURSIVE trimEnd(_)
trimEnd(s) ==
    IF s # <<>> /\ IsSpace(s[Len(s)]) THEN trimEnd(SubSeq(s, 1, Len(s) - 1)) ELSE s

\* String.prototype.trim
trim(s) == trimEnd(trimStart(s))

\* s.replace(/\s+/g, ' ')
RECURSIVE collapseSpaces(_)
collapseSpaces(s) ==
    IF s = <<>> THEN <<>>
    ELSE IF IsSpace(Head(s))
         THEN <<" ">> \o collapseSpaces(trimStart(s))
         ELSE <<Head(s)>> \o collapseSpaces(Tail(s))

\* a.includes(b) on strings
includes(a, b) ==
    \E i \in 1..(Len(a) + 1) : i + Len(b) - 1 <= Len(a) /\ SubSeq(a, i, i + Len(b) - 1) = b

\* (s || '') for a string field that may be null
orEmpty(s) == IF s = NULLSTR THEN EMPTY ELSE s

-----------------------------------------------------------------------------
(* lib/text.js *)

\* the characters /[^a-z0-9+&/#.\- ]+/ keeps
KeptChars == LowerSet \cup Digits \cup {"+", "&", "/", "#", ".", "-", " "}

normalizeToken(s) ==
    LET lower == toLowerCase(orEmpty(s))
        kept  == SelectSeq(lower, LAMBDA c : c \in KeptChars)
    IN  trim(collapseSpaces(kept))

\* a.map(normalizeToken).filter(Boolean)
normTokens(a) == SelectSeq([i \in 1..Len(a) |-> normalizeToken(a[i])], LAMBDA t : t # EMPTY)

Range(q) == {q[i] : i \in 1..Len(q)}

RECURSIVE intersectFrom(_, _, _, _, _)
intersectFrom(Aset, b, limit, i, out) ==
    IF i > Len(b) THEN out
    ELSE LET nx == normalizeToken(b[i]) IN
         IF nx = EMPTY \/ nx \in Range(out) THEN intersectFrom(Aset, b, limit, i + 1, out)
         ELSE IF nx \in Aset
              THEN IF Len(out) + 1 >= limit THEN Append(out, nx)
                   ELSE intersectFrom(Aset, b, limit, i + 1, Append(out, nx))
              ELSE intersectFrom(Aset, b, limit, i + 1, out)

intersect(a, b, limit) == intersectFrom(Range(normTokens(a)), b, limit, 1, <<>>)

EduNone == <<"N", "o", "n", "e">>
EduHighSchool == <<"H", "i", "g", "h", " ", "S", "c", "h", "o", "o", "l">>
EduDiploma == <<"D", "i", "p", "l", "o", "m", "a", "/", "C", "e", "r", "t", "i", "f", "i", "c", "a", "t", "e">>
EduAssociate == <<"A", "s", "s", "o", "c", "i", "a", "t", "e">>
EduBachelor == <<"B", "a", "c", "h", "e", "l", "o", "r">>
EduMaster == <<"M", "a", "s", "t", "e", "r">>
EduPhD == <<"P", "h", "D", "/", "D", "o", "c", "t", "o", "r", "a", "t", "e">>
EduUnknown == <<"U", "n", "k", "n", "o", "w", "n">>
EduBootcamp == <<"B", "o", "o", "t", "c", "a", "m", "p">>
EduBachelorLower == <<"b", "a", "c", "h", "e", "l", "o", "r">>

\* the keys of EDU_RANK, in the order of their values 0..6
EDU_RANK == <<toLowerCase(EduNone), toLowerCase(EduHighSchool), toLowerCase(EduDiploma),
              toLowerCase(EduAssociate), toLowerCase(EduBachelor), toLowerCase(EduMaster),
              toLowerCase(EduPhD)>>

educationRank(level) ==
    IF level = NULLSTR \/ level = EMPTY THEN -1
    ELSE LET key == toLowerCase(level) IN
         IF \E i \in 1..Len(EDU_RANK) : EDU_RANK[i] = key
         THEN (CHOOSE i \in 1..Len(EDU_RANK) : EDU_RANK[i] = key) - 1
         ELSE -1

educationMeets(resumeEdu, jdEduMin) ==
    IF jdEduMin = NULLSTR \/ jdEduMin = EMPTY THEN TRUE
    ELSE IF toLowerCase(jdEduMin) = toLowerCase(EduNone) THEN TRUE
    ELSE educationRank(resumeEdu) >= educationRank(jdEduMin)


-----------------------------------------------------------------------------
(* config/match-weights.js *)

COSINE_WEIGHT == 70
BOOSTS_functions == 5
BOOSTS_skills == 5
BOOSTS_languages == 5
BOOSTS_achievements == 3
BOOSTS_softSkillPerMatch == 2
PENALTIES_seniorityLeadVsMid == -8
PENALTIES_languageMissing == -10
GATES_yoeToleranceYears == 1
\* thresholds in hundredths: 0.80, 0.50, 0.45
SOFT_SKILL_cosineThreshold == 80
SOFT_FUNC_cosineThreshold == 50
SOFT_FUNC_perMatch == 2
SOFT_FUNC_maxTotal == 4
SOFT_INDUSTRY_cosineThreshold == 45
SOFT_INDUSTRY_perMatch == 2
SOFT_INDUSTRY_maxTotal == 4

\* Math.ceil(a / b) for positive integers
CeilDiv(a, b) == (a + b - 1) \div b

-----------------------------------------------------------------------------
(* cosine of two embedding vectors, kept exact *)

\* sum of f[i] for i in 1..n
RECURSIVE SumTo(_, _)
SumTo(f, n) == IF n = 0 THEN 0 ELSE f[n] + SumTo(f, n - 1)

\* cosine(a, b): the value dot / sqrt(nn), or 0 when a norm is 0
cosine(a, b) ==
    LET L   == Min(Len(a), Len(b))
        dot == SumTo([i \in 1..L |-> a[i] * b[i]], L)
        na  == SumTo([i \in 1..L |-> a[i] * a[i]], L)
        nb  == SumTo([i \in 1..L |-> b[i] * b[i]], L)
    IN  IF na # 0 /\ nb # 0 THEN [dot |-> dot, nn |-> na * nb] ELSE [dot |-> 0, nn |-> 1]

\* the largest m in lo..hi with m * m * den <= num   (lo satisfies it, den > 0)
RECURSIVE FloorRoot(_, _, _, _)
FloorRoot(lo, hi, num, den) ==
    IF lo >= hi THEN lo
    ELSE LET mid == (lo + hi + 1) \div 2 IN
         IF mid * mid <= num \div den THEN FloorRoot(mid, hi, num, den)
         ELSE FloorRoot(lo, mid - 1, num, den)

\* Math.round(c * W) for the cosine c and an integer weight W > 0:
\* floor(c * W + 1/2), computed without leaving the integers
roundTimes(c, W) ==
    LET x   == W * c.dot
        num == 4 * x * x
        fl  == FloorRoot(0, 2 * Abs(x), num, c.nn)      \* floor(|2 c W|)
        ce  == IF fl * fl = num \div c.nn /\ num % c.nn = 0 THEN fl ELSE fl + 1 \* ceil(|2 c W|)
    IN  IF x >= 0 THEN (fl + 1) \div 2 ELSE -(ce \div 2)

\* Number(c.toFixed(4)), counted in ten-thousandths
toFixed4(c) == roundTimes(c, 10000)

\* 1.0 in ten-thousandths
One == 10000

\* sim >= threshold, the threshold given in hundredths (>= 0)
atLeast(c, pct) == c.dot >= 0 /\ 10000 * c.dot * c.dot >= pct * pct * c.nn

\* c > d on two cosines
greater(c, d) ==
    IF c.dot >= 0 /\ d.dot >= 0 THEN c.dot * c.dot * d.nn > d.dot * d.dot * c.nn
    ELSE IF c.dot >= 0 THEN TRUE
    ELSE IF d.dot >= 0 THEN FALSE
    ELSE c.dot * c.dot * d.nn < d.dot * d.dot * c.nn

-----------------------------------------------------------------------------
(* routes/match.js, the composer that reads config/match-weights.js *)

\* the failed openai.embeddings.create call
FAIL == <<>>

seniorityPenalty(jdSeniority, cvSeniority) ==
    LET j == toLowerCase(orEmpty(jdSeniority))
        r == toLowerCase(orEmpty(cvSeniority))
    IN  IF j \in {<<"m","i","d">>, <<"j","u","n","i","o","r">>}
           /\ r \in {<<"l","e","a","d","/","h","e","a","d">>, <<"d","i","r","e","c","t","o","r","+">>}
        THEN -8 ELSE 0

\* the achievements loop of computeOverlaps: for each achievement the first
\* outcome that contains it or is contained in it, at most 5 entries
RECURSIVE achievementsFrom(_, _, _, _)
achievementsFrom(rAch, jOut, i, out) ==
    IF i > Len(rAch) THEN out
    ELSE LET an   == normalizeToken(rAch[i])
             hits == {j \in 1..Len(jOut) :
                         LET on == normalizeToken(jOut[j])
                         IN  on # EMPTY /\ (includes(an, on) \/ includes(on, an))}
             out2 == IF an # EMPTY /\ hits # {}
                     THEN Append(out, normalizeToken(jOut[CHOOSE j \in hits : \A k \in hits : j <= k]))
                     ELSE out
         IN  IF an # EMPTY /\ Len(out2) >= 5 THEN out2
             ELSE achievementsFrom(rAch, jOut, i + 1, out2)

nonEmpty(a) == SelectSeq(a, LAMBDA t : t # EMPTY /\ t # NULLSTR)

computeOverlaps(overview, jd) ==
    LET yoeMin  == jd.requirements.yoeMin
        yoe     == overview.yoe
        eduMin  == jd.requirements.educationMin
        eduCand == overview.education
    IN  [ functionsOverlap    |-> intersect(overview.functions, jd.roleOrg.functions, 3),
          skillsOverlap       |-> intersect(overview.topHardSkills, jd.successSignals.topHardSkills, 10),
          languagesOverlap    |-> intersect(overview.languages, jd.logistics.languages, 3),
          achievementsOverlap |-> achievementsFrom(nonEmpty(overview.topAchievements),
                                                   nonEmpty(jd.successSignals.keyOutcomes), 1, <<>>),
          yoeCheck            |-> (yoeMin = NULL \/ (yoe # NULL /\ yoe >= yoeMin)),
          educationCheck      |-> educationMeets(eduCand, eduMin),
          jdLangs             |-> jd.logistics.languages,
          resumeSkills        |-> overview.topHardSkills,
          jdSkills            |-> jd.successSignals.topHardSkills,
          resumeFunctions     |-> overview.functions,
          jdFunctions         |-> jd.roleOrg.functions,
          jdIndustries        |-> jd.successSignals.industryHints ]

\* One pass of the inner loop of softSkillMatches / softStringMatches: the resume
\* tokens are embedded one after the other until one reaches the threshold.
\* Result: err (a fetch threw), hit (a token reached the threshold), n (fetches made).
RECURSIVE scanResume(_, _, _, _, _, _)
scanResume(jdVec, resumeNorm, i, threshold, prov, n) ==
    IF i > Len(resumeNorm) THEN [err |-> FALSE, hit |-> FALSE, n |-> n]
    ELSE LET cvVec == prov[resumeNorm[i]] IN
         IF cvVec = FAIL THEN [err |-> TRUE, hit |-> FALSE, n |-> n + 1]
         ELSE IF atLeast(cosine(jdVec, cvVec), threshold)
              THEN [err |-> FALSE, hit |-> TRUE, n |-> n + 1]
              ELSE scanResume(jdVec, resumeNorm, i + 1, threshold, prov, n + 1)

\* The outer loop: the JD terms left after exact matching, in order.
\* st = [err, matches, n]
RECURSIVE scanJd(_, _, _, _, _, _, _)
scanJd(jdFiltered, resumeNorm, j, threshold, maxTotal, prov, st) ==
    IF j > Len(jdFiltered) THEN st
    ELSE LET jdTok == normalizeToken(jdFiltered[j]) IN
         IF jdTok = EMPTY THEN scanJd(jdFiltered, resumeNorm, j + 1, threshold, maxTotal, prov, st)
         ELSE IF prov[jdTok] = FAIL THEN [st EXCEPT !.err = TRUE, !.n = @ + 1]
         ELSE LET in == scanResume(prov[jdTok], resumeNorm, 1, threshold, prov, st.n + 1)
                  ms == IF in.hit /\ jdTok \notin Range(st.matches)
                        THEN Append(st.matches, jdTok) ELSE st.matches
                  s2 == [err |-> in.err, matches |-> ms, n |-> in.n]
              IN  IF in.err \/ Len(ms) >= maxTotal THEN s2
                  ELSE scanJd(jdFiltered, resumeNorm, j + 1, threshold, maxTotal, prov, s2)

\* "no limit" of the loop of softSkillMatches
NoLimit == 1000

softSkillMatches(resumeSkills, jdSkills, threshold, prov) ==
    LET exactOverlap == Range(intersect(resumeSkills, jdSkills, 100))
        jdFiltered   == SelectSeq(jdSkills, LAMBDA s : normalizeToken(s) \notin exactOverlap)
        resumeNorm   == normTokens(resumeSkills)
    IN  scanJd(jdFiltered, resumeNorm, 1, threshold, NoLimit, prov,
               [err |-> FALSE, matches |-> <<>>, n |-> 0])

softStringMatches(resumeTerms, jdTerms, threshold, maxTotal, prov) ==
    LET exact      == Range(intersect(resumeTerms, jdTerms, 100))
        jdFiltered == SelectSeq(jdTerms, LAMBDA s : normalizeToken(s) \notin exact)
        resumeNorm == normTokens(resumeTerms)
        cvToks     == [i \in 1..Len(resumeNorm) |-> normalizeToken(resumeNorm[i])]
    IN  scanJd(jdFiltered, cvToks, 1, threshold, maxTotal, prov,
               [err |-> FALSE, matches |-> <<>>, n |-> 0])

\* a string the code tests with "&&" or "||": null and '' are falsy
truthy(s) == s # NULLSTR /\ s # EMPTY

\* the condition of the experience gate, the tolerance written into the route
yoeGateNoNullCheck(yoe, yoeMin) == yoeMin # NULL /\ Max(yoe, 0) < yoeMin - 1
yoeGate(yoe, yoeMin) == yoeMin # NULL /\ yoe # NULL /\ yoe < yoeMin - 1

\* the condition of the education gate
educationGateNotStrict(eduCand, eduMin) ==
    /\ truthy(eduMin) /\ truthy(eduCand)
    /\ educationRank(eduCand) > -1 /\ educationRank(eduMin) > -1
    /\ educationRank(eduCand) <= educationRank(eduMin)
educationGate(eduCand, eduMin) ==
    /\ truthy(eduMin) /\ truthy(eduCand)
    /\ educationRank(eduCand) > -1 /\ educationRank(eduMin) > -1
    /\ educationRank(eduCand) < educationRank(eduMin)

When(c, e) == IF c THEN <<e>> ELSE <<>>

\* the reply of a gated request: score 0, the breakdown and the gate entry
gatedReplyNoEntry(cos, overlaps, gate) ==
    [ kind |-> "ok", status |-> 200, score |-> 0, cosine |-> toFixed4(cos), overlaps |-> overlaps,
      reasons |-> [boosts |-> <<>>, penalties |-> <<>>, gates |-> <<>>] ]
gatedReply(cos, overlaps, gate) ==
    [ kind |-> "ok", status |-> 200, score |-> 0, cosine |-> toFixed4(cos), overlaps |-> overlaps,
      reasons |-> [boosts |-> <<>>, penalties |-> <<>>, gates |-> <<gate>>] ]

\* Math.max(0, Math.min(100, score))
clampHighOnly(score) == Min(100, score)
clamp(score) == Max(0, Min(100, score))

\* Math.min(n * perMatch, cap): the boost of a category with n matches
uncappedBoost(n, perMatch, cap) == n * perMatch
cappedBoost(n, perMatch, cap) == Min(n * perMatch, cap)

\* base score, boosts, penalties and the final clamp
composeScore(cos, overlaps, softMatches, softFuncMatches, jd, overview) ==
    LET base  == roundTimes(cos, COSINE_WEIGHT)
        fOn   == Len(overlaps.functionsOverlap) > 0
        sOn   == Len(overlaps.skillsOverlap) > 0
        lOn   == Len(overlaps.languagesOverlap) > 0
        aOn   == Len(overlaps.achievementsOverlap) > 0
        amt   == cappedBoost(Len(softMatches), BOOSTS_softSkillPerMatch, 6)
        ssOn  == Len(softMatches) > 0
        amtF  == cappedBoost(Len(softFuncMatches), SOFT_FUNC_perMatch, SOFT_FUNC_maxTotal)
        sfOn  == Len(softFuncMatches) > 0 /\ amtF > 0
        sPen  == seniorityPenalty(jd.roleOrg.seniorityHint, overview.seniorityHint)
        hasLangReq == Len(nonEmpty(overlaps.jdLangs)) > 0
        langMiss   == hasLangReq /\ Len(overlaps.languagesOverlap) = 0
        raw   == base
                 + (IF fOn THEN BOOSTS_functions ELSE 0)
                 + (IF sOn THEN BOOSTS_skills ELSE 0)
                 + (IF lOn THEN BOOSTS_languages ELSE 0)
                 + (IF aOn THEN BOOSTS_achievements ELSE 0)
                 + (IF ssOn THEN amt ELSE 0)
                 + (IF sfOn THEN amtF ELSE 0)
                 + sPen
                 + (IF langMiss THEN PENALTIES_languageMissing ELSE 0)
    IN  [ score  |-> clamp(raw),
          boosts |-> When(fOn, [type |-> "functions", amount |-> BOOSTS_functions])
                     \o When(sOn, [type |-> "skills", amount |-> BOOSTS_skills])
                     \o When(lOn, [type |-> "languages", amount |-> BOOSTS_languages])
                     \o When(aOn, [type |-> "achievements", amount |-> BOOSTS_achievements])
                     \o When(ssOn, [type |-> "soft_skill_matches", amount |-> amt,
                                    matches |-> softMatches])
                     \o When(sfOn, [type |-> "soft_function_matches", amount |-> amtF,
                                    matches |-> softFuncMatches]),
          penalties |-> When(sPen # 0, [type |-> "seniority_mismatch", amount |-> sPen])
                        \o When(langMiss, [type |-> "language_missing",
                                           amount |-> PENALTIES_languageMissing]) ]

\* SKILL_SYNONYMS: <<canonical token, variants>> in the order of the object's keys
SKILL_SYNONYMS ==
    << << <<"l","i","n","k","e","d","i","n">>,
          << <<"l","i","n","k","e","d","i","n">>,
             <<"l","i"," ","p","r","o","s","p","e","c","t","i","n","g">>,
             <<"s","o","c","i","a","l"," ","s","e","l","l","i","n","g">>,
             <<"s","a","l","e","s"," ","n","a","v","i","g","a","t","o","r">>,
             <<"l","i","n","k","e","d","i","n"," ","s","a","l","e","s"," ","n","a","v","i","g","a","t","o","r">> >> >>,
       << <<"l","e","a","d","g","e","n">>,
          << <<"l","e","a","d"," ","g","e","n">>,
             <<"l","e","a","d","g","e","n">>,
             <<"l","e","a","d","-","g","e","n","e","r","a","t","i","o","n">>,
             <<"p","r","o","s","p","e","c","t","i","n","g">>,
             <<"o","u","t","r","e","a","c","h">>,
             <<"c","o","l","d"," ","o","u","t","r","e","a","c","h">>,
             <<"p","i","p","e","l","i","n","e">>,
             <<"p","i","p","e","l","i","n","e"," ","b","u","i","l","d","i","n","g">> >> >>,
       << <<"c","r","m">>,
          << <<"s","a","l","e","s","f","o","r","c","e">>,
             <<"h","u","b","s","p","o","t">>,
             <<"p","i","p","e","d","r","i","v","e">>,
             <<"z","o","h","o"," ","c","r","m">>,
             <<"c","r","m">> >> >>,
       << <<"i","t","-","b","a","s","i","c","s">>,
          << <<"s","o","f","t","w","a","r","e"," ","d","e","v","e","l","o","p","m","e","n","t"," ","t","e","r","m","s">>,
             <<"i","t"," ","t","e","c","h","n","o","l","o","g","i","e","s">>,
             <<"t","e","c","h"," ","s","t","a","c","k">>,
             <<"i","n","f","o","r","m","a","t","i","o","n"," ","t","e","c","h","n","o","l","o","g","y">>,
             <<"i","t">> >> >> >>

-----------------------------------------------------------------------------
(* routes/match.js, the composer boostedScore with its own helpers *)

\* norm: (s || '').toString().trim()
norm(s) == trim(orEmpty(s))

\* Array.from(new Set(a)): the first occurrence of each element, in order
RECURSIVE dedupe(_)
dedupe(a) ==
    IF a = <<>> THEN <<>>
    ELSE LET init == dedupe(SubSeq(a, 1, Len(a) - 1)) IN
         IF a[Len(a)] \in Range(init) THEN init ELSE Append(init, a[Len(a)])

normArr(arr) ==
    dedupe(SelectSeq([i \in 1..Len(arr) |-> toLowerCase(norm(arr[i]))], LAMBDA t : t # EMPTY))

\* eduRank of routes/match.js: the index in the ladder, case-sensitive
eduRank(level) ==
    LET order == <<EduNone, EduHighSchool, EduDiploma, EduAssociate, EduBachelor, EduMaster, EduPhD>>
        l     == orEmpty(level)
    IN  IF \E i \in 1..Len(order) : order[i] = l
        THEN (CHOOSE i \in 1..Len(order) : order[i] = l) - 1
        ELSE -1

canonicalizeSkill(raw) ==
    LET s    == toLowerCase(norm(raw))
        hits == {k \in 1..Len(SKILL_SYNONYMS) : s \in Range(SKILL_SYNONYMS[k][2])}
    IN  IF hits # {} THEN SKILL_SYNONYMS[CHOOSE k \in hits : \A m \in hits : k <= m][1] ELSE s

canonicalizeSkills(arr) ==
    dedupe(SelectSeq([i \in 1..Len(arr) |-> canonicalizeSkill(arr[i])], LAMBDA t : t # EMPTY))

textContainsAny(text, terms) ==
    LET t == toLowerCase(norm(text)) IN \E k \in 1..Len(terms) : includes(t, terms[k])

anyContainsAny(arr, terms) == \E i \in 1..Len(arr) : textContainsAny(arr[i], terms)

leadgenTerms == SKILL_SYNONYMS[2][2]

intersections(resume, jd) ==
    LET rFuncs  == normArr(resume.functions)
        jFuncs  == normArr(jd.roleOrg.functions)
        rSkills == canonicalizeSkills(resume.topHardSkills)
        jSkills == canonicalizeSkills(jd.successSignals.topHardSkills)
        rLangs  == normArr(resume.languages)
        jLangs  == normArr(jd.logistics.languages)
        lower(a) == SelectSeq([i \in 1..Len(a) |-> toLowerCase(norm(a[i]))], LAMBDA t : t # EMPTY)
        rAch    == lower(resume.topAchievements)
        jOut    == lower(jd.successSignals.keyOutcomes)
        yoeMin  == jd.requirements.yoeMin
        yoe     == resume.yoe
        eduMin  == jd.requirements.educationMin
        eduCand == resume.education
    IN  [ rFuncs |-> rFuncs, jFuncs |-> jFuncs, rSkills |-> rSkills, jSkills |-> jSkills,
          rLangs |-> rLangs, jLangs |-> jLangs,
          funcHit  |-> SelectSeq(rFuncs, LAMBDA x : x \in Range(jFuncs)),
          skillHit |-> SelectSeq(rSkills, LAMBDA x : x \in Range(jSkills)),
          langHit  |-> SelectSeq(rLangs, LAMBDA x : x \in Range(jLangs)),
          achHit   |-> SelectSeq(rAch, LAMBDA a :
                          \E j \in 1..Len(jOut) : includes(a, jOut[j]) \/ includes(jOut[j], a)),
          jdLeadgenRequired |->
              (anyContainsAny(jd.successSignals.topHardSkills, leadgenTerms)
               \/ anyContainsAny(jd.successSignals.keyOutcomes, leadgenTerms)),
          resumeLeadgenPresent |->
              (anyContainsAny(resume.topHardSkills, leadgenTerms)
               \/ anyContainsAny(resume.topAchievements, leadgenTerms)),
          yoeCheck |-> (yoeMin = NULL \/ (yoe # NULL /\ yoe >= yoeMin)),
          eduCheck |-> (eduMin = NULLSTR \/ eduMin = EduUnknown \/ eduMin = EduNone
                        \/ eduRank(eduCand) >= eduRank(eduMin)) ]

\* seniorityPenalty of routes/match.js
seniorityPenaltyMid(jdSeniority, cvSeniority) ==
    LET j == toLowerCase(orEmpty(jdSeniority))
        r == toLowerCase(orEmpty(cvSeniority))
    IN  IF j = <<"m","i","d">>
        THEN IF r = <<"j","u","n","i","o","r">> THEN -12
             ELSE IF r \in {<<"l","e","a","d","/","h","e","a","d">>,
                            <<"d","i","r","e","c","t","o","r","+">>} THEN -8
             ELSE 0
        ELSE 0

industryAlignmentBoost(jd, resume) ==
    LET hints == jd.successSignals.industryHints
        inds  == [i \in 1..Len(hints) |-> toLowerCase(norm(hints[i]))]
        ach   == resume.topAchievements
        texts == <<toLowerCase(norm(resume.employerDescriptor)), toLowerCase(norm(resume.employer))>>
                 \o [i \in 1..Len(ach) |-> toLowerCase(norm(ach[i]))]
    IN  IF Len(inds) = 0 THEN 0
        ELSE IF \E i \in 1..Len(inds) : \E k \in 1..Len(texts) :
                    texts[k] # EMPTY /\ includes(texts[k], inds[i])
             THEN 5 ELSE 0

languageGatePenalty(jLangs, rLangs) ==
    IF Len(jLangs) = 0 THEN [penalty |-> 0, mode |-> "none"]
    ELSE IF \E i \in 1..Len(jLangs) : jLangs[i] \in Range(rLangs) THEN [penalty |-> 0, mode |-> "ok"]
    ELSE IF Len(jLangs) = 1 /\ toLowerCase(jLangs[1]) = <<"e","n","g","l","i","s","h">>
         THEN [penalty |-> -4, mode |-> "soft"]
         ELSE [penalty |-> -10, mode |-> "strict"]

\* the skill gate cap: with no skill overlap the score is capped at 75
skillCapAt70(noSkill, sum) == IF noSkill THEN Min(sum, 70) ELSE sum
skillCap(noSkill, sum) == IF noSkill THEN Min(sum, 75) ELSE sum

\* the penalty cap: the penalties applied to the score are never below -20
penaltyUncapped(penaltyRaw) == penaltyRaw
penaltyCap(penaltyRaw) == IF penaltyRaw < -20 THEN -20 ELSE penaltyRaw

boostedScore(cos, overlaps, jd, resume) ==
    LET base       == roundTimes(cos, 80)
        funcBoost  == cappedBoost(Len(overlaps.funcHit), 5, 10)
        skillBoost == cappedBoost(Len(overlaps.skillHit), 4, 20)
        leadBoost  == IF overlaps.resumeLeadgenPresent THEN 8 ELSE 0
        lang       == languageGatePenalty(overlaps.jLangs, overlaps.rLangs)
        sPen       == seniorityPenaltyMid(jd.roleOrg.seniorityHint, resume.seniorityHint)
        indBoost   == industryAlignmentBoost(jd, resume)
        leadMiss   == overlaps.jdLeadgenRequired /\ ~overlaps.resumeLeadgenPresent
        boostSum   == funcBoost + skillBoost + leadBoost + indBoost
        penaltyRaw == lang.penalty + sPen + (IF leadMiss THEN -6 ELSE 0)
        penaltySum == penaltyCap(penaltyRaw)
        sum        == base + boostSum + penaltySum
        noSkill    == Len(overlaps.skillHit) = 0
        capped     == skillCap(noSkill, sum)
    IN  [ score  |-> Max(0, Min(100, capped)),
          boosts |-> When(funcBoost # 0, [type |-> "functions", amount |-> funcBoost,
                                          matches |-> overlaps.funcHit])
                     \o When(skillBoost # 0, [type |-> "skills", amount |-> skillBoost,
                                              matches |-> overlaps.skillHit])
                     \o When(overlaps.resumeLeadgenPresent, [type |-> "leadgen_present", amount |-> 8])
                     \o When(indBoost # 0, [type |-> "industry", amount |-> indBoost]),
          penalties |-> When(lang.penalty # 0, [type |-> "language_gate", mode |-> lang.mode,
                                                amount |-> lang.penalty])
                        \o When(sPen # 0, [type |-> "seniority_mismatch", amount |-> sPen])
                        \o When(leadMiss, [type |-> "leadgen_missing", amount |-> -6]),
          gates |-> When(penaltyRaw < -20, [type |-> "penalty_cap", cappedAt |-> -20,
                                            original |-> penaltyRaw])
                    \o When(noSkill /\ sum > 75, [type |-> "skill_cap", cappedAt |-> 75]) ]

-----------------------------------------------------------------------------
(* the requests served: stored overviews and stored job descriptions *)

tSales == <<"S","a","l","e","s">>
tSalesSpaced == <<" ","s","a","l","e","s"," ">>
tMarketing == <<"M","a","r","k","e","t","i","n","g">>
tSQL == <<"S","Q","L">>
tSqlLower == <<"s","q","l">>
tPython == <<"P","y","t","h","o","n">>
tSalesforce == <<"S","a","l","e","s","f","o","r","c","e">>
tProspecting == <<"P","r","o","s","p","e","c","t","i","n","g">>
tEnglish == <<"E","n","g","l","i","s","h">>
tEnglishLower == <<"e","n","g","l","i","s","h">>
tGerman == <<"G","e","r","m","a","n">>
tBuiltPipeline == <<"B","u","i","l","t"," ","p","i","p","e","l","i","n","e">>
tPipeline == <<"p","i","p","e","l","i","n","e">>
tGrewRevenue == <<"G","r","e","w"," ","r","e","v","e","n","u","e">>
tFintech == <<"F","i","n","t","e","c","h">>
tAcmeFintech == <<"A","c","m","e"," ","F","i","n","t","e","c","h">>
tMid == <<"M","i","d">>
tJunior == <<"J","u","n","i","o","r">>
tLeadHead == <<"L","e","a","d","/","H","e","a","d">>
tDirector == <<"D","I","R","E","C","T","O","R","+">>

\* the embedding vectors the provider answers with
SignalVecs == {<<1, 0>>, <<0, 1>>, <<1, 1>>, <<-1, 0>>, <<0, 0>>}
TermVecs == {<<1, 0>>, <<0, 1>>, <<1, 1>>}

\* the cosines of the two signal embeddings
SignalCosines == {cosine(a, b) : a \in SignalVecs, b \in SignalVecs}

\* the tokens the soft matchers may embed
Tokens == { normalizeToken(t) :
            t \in {tSales, tMarketing, tSQL, tPython, tSalesforce, tProspecting, tFintech} }
          \cup {tGrewRevenue, tBuiltPipeline, tPipeline}

\* what the provider answers per token: two tables, and in each at most one
\* token whose openai.embeddings.create call fails
AllAlike == [t \in Tokens |-> <<1, 0>>]
Spread ==
    [t \in Tokens |->
        IF t \in {normalizeToken(tSQL), normalizeToken(tSales)} THEN <<1, 0>>
        ELSE IF t \in {normalizeToken(tSalesforce), normalizeToken(tMarketing)} THEN <<1, 1>>
        ELSE <<0, 1>>]
FailingTokens == {normalizeToken(tSalesforce), normalizeToken(tSQL), normalizeToken(tFintech)}
Providers ==
    {AllAlike, Spread}
    \cup { [t \in Tokens |-> IF t = f THEN FAIL ELSE b[t]] : b \in {AllAlike, Spread}, f \in FailingTokens }

overviewTerms(sen, funcs, skills, langs, ach, employer) ==
    [ seniorityHint |-> sen, functions |-> funcs, topHardSkills |-> skills, languages |-> langs,
      topAchievements |-> ach, employer |-> employer, employerDescriptor |-> NULLSTR ]

jdTerms(sen, funcs, skills, langs, outcomes, inds) ==
    [ seniorityHint |-> sen, functions |-> funcs, topHardSkills |-> skills, languages |-> langs,
      keyOutcomes |-> outcomes, industryHints |-> inds ]

OverviewTerms ==
    { overviewTerms(NULLSTR, <<>>, <<>>, <<>>, <<>>, NULLSTR),
      overviewTerms(tLeadHead, <<tSales>>, <<tSQL, tProspecting>>, <<tEnglish>>,
                    <<tBuiltPipeline>>, tAcmeFintech),
      overviewTerms(tJunior, <<tMarketing>>, <<tPython>>, <<tGerman>>, <<>>, NULLSTR) }

JdTerms ==
    { jdTerms(NULLSTR, <<>>, <<>>, <<>>, <<>>, <<>>),
      jdTerms(tMid, <<tSalesSpaced>>, <<tSqlLower, tSalesforce>>, <<tEnglishLower>>,
              <<tPipeline>>, <<tFintech>>),
      jdTerms(tJunior, <<tMarketing, tSales>>, <<tPython, tSQL, tSalesforce>>, <<tEnglish>>,
              <<tGrewRevenue>>, <<tFintech>>),
      jdTerms(tMid, <<tSales>>, <<tProspecting>>, <<tGerman, tEnglish>>, <<>>, <<tFintech>>) }

Yoes == {NULL, 0, 3, 4, 5}
YoeMins == {NULL, 0, 5}
EduLevels == {NULLSTR, EMPTY, EduUnknown, EduNone, EduBachelor, EduBachelorLower, EduMaster, EduBootcamp}
EduMins == {NULLSTR, EduUnknown, EduNone, EduBachelor, EduMaster, EduPhD, EduBootcamp}
Routes == {"configured", "boosted"}

overviewOf(yoe, edu, t) ==
    [ yoe |-> yoe, education |-> edu, seniorityHint |-> t.seniorityHint,
      functions |-> t.functions, topHardSkills |-> t.topHardSkills, languages |-> t.languages,
      topAchievements |-> t.topAchievements, employer |-> t.employer,
      employerDescriptor |-> t.employerDescriptor ]

jdOf(yoeMin, eduMin, t) ==
    [ requirements   |-> [yoeMin |-> yoeMin, educationMin |-> eduMin],
      roleOrg        |-> [seniorityHint |-> t.seniorityHint, functions |-> t.functions],
      successSignals |-> [topHardSkills |-> t.topHardSkills, keyOutcomes |-> t.keyOutcomes,
                          industryHints |-> t.industryHints],
      logistics      |-> [languages |-> t.languages] ]

EmptyOverview == overviewOf(NULL, NULLSTR, overviewTerms(NULLSTR, <<>>, <<>>, <<>>, <<>>, NULLSTR))
EmptyJd == jdOf(NULL, NULLSTR, jdTerms(NULLSTR, <<>>, <<>>, <<>>, <<>>, <<>>))

request(route, problem, overview, jd) ==
    [route |-> route, problem |-> problem, overview |-> overview, jd |-> jd]

\* the term lists the gate inputs are combined with
GateOverviewTerms ==
    overviewTerms(tLeadHead, <<tSales>>, <<tSQL, tProspecting>>, <<tEnglish>>,
                  <<tBuiltPipeline>>, tAcmeFintech)
GateJdTerms ==
    jdTerms(tMid, <<tSalesSpaced>>, <<tSqlLower, tSalesforce>>, <<tEnglishLower>>,
            <<tPipeline>>, <<tFintech>>)

\* every experience input, with the education gate open and closed
YoeRequests ==
    { request(r, "none", overviewOf(y, e[1], GateOverviewTerms), jdOf(ym, e[2], GateJdTerms)) :
        r \in Routes, y \in Yoes, ym \in YoeMins,
        e \in {<<NULLSTR, NULLSTR>>, <<EduMaster, EduBachelor>>, <<EduBachelor, EduMaster>>,
               <<EduUnknown, EduMaster>>} }

\* every education input, with the experience gate open and closed
EduRequests ==
    { request(r, "none", overviewOf(y[1], e, GateOverviewTerms), jdOf(y[2], em, GateJdTerms)) :
        r \in Routes, e \in EduLevels, em \in EduMins,
        y \in {<<NULL, NULL>>, <<5, 5>>, <<3, 5>>} }

GateRequests == YoeRequests \cup EduRequests

\* every pair of term lists, ungated and gated
TermRequests ==
    { request(r, "none", overviewOf(g[1], g[2], ot), jdOf(g[3], g[4], jt)) :
        r \in Routes, ot \in OverviewTerms, jt \in JdTerms,
        g \in {<<NULL, NULLSTR, NULL, NULLSTR>>, <<3, EduBachelor, 5, EduMaster>>} }

\* requests the route rejects before it reads the overview
RejectedRequests ==
    { request(r, p, EmptyOverview, EmptyJd) :
        r \in Routes, p \in {"no_ids", "resume_not_found", "jd_not_found", "no_overview"} }

\* stored data of the wrong shape: an overview or a jd that is a non-empty
\* string, not an object; every property the route reads of it is undefined,
\* as for {}
MalformedRequests ==
    { request(r, p, EmptyOverview, EmptyJd) :
        r \in Routes, p \in {"overview_not_object", "jd_not_object"} }

\* three functions on both sides, in different order
CapRequests ==
    { request(r, "none",
              overviewOf(NULL, NULLSTR,
                         overviewTerms(NULLSTR, <<tSales, tMarketing, tProspecting>>, <<>>, <<>>,
                                       <<>>, NULLSTR)),
              jdOf(NULL, NULLSTR,
                   jdTerms(NULLSTR, <<tProspecting, tSales, tMarketing>>, <<>>, <<>>, <<>>, <<>>))) :
        r \in Routes }

Requests ==
    GateRequests \cup TermRequests \cup RejectedRequests \cup MalformedRequests \cup CapRequests

\* what the checks of the handler find: !resumeId || !jdHash, !resumeData,
\* !jdData, !resumeData.overview
Checked == {"no_ids", "resume_not_found", "jd_not_found", "no_overview"}

-----------------------------------------------------------------------------
(* the POST /v1/match handler *)

NoResp == [kind |-> "none"]
NoReq == [route |-> "none"]
ZeroCos == [dot |-> 0, nn |-> 1]

\* the 4xx replies sent before any embedding is requested
rejection(problem) ==
    [ kind |-> "error",
      status |-> IF problem \in {"resume_not_found", "jd_not_found"} THEN 404 ELSE 400,
      code |-> IF problem \in {"resume_not_found", "jd_not_found"} THEN "NOT_FOUND" ELSE "BAD_REQUEST" ]

\* the catch block: one 500 reply, nothing of the computation in it
failureReplyDegraded(route) ==
    [ kind |-> "ok", status |-> 200, score |-> 0, cosine |-> 0,
      reasons |-> [boosts |-> <<>>, penalties |-> <<>>, gates |-> <<>>] ]
failureReply(route) ==
    [ kind |-> "error", status |-> 500,
      code |-> IF route = "boosted" THEN "MATCH_ERROR" ELSE "PROCESSING_ERROR" ]

CacheUntouched == UNCHANGED cacheVars

\* body, id checks, getResume, getJD, overview check; then both signal
\* embeddings are requested (Promise.all)
Receive ==
    /\ pc = "idle"
    /\ \E r \in Requests :
          /\ req' = r
          /\ IF r.problem \in Checked
             THEN /\ pc' = "done"
                  /\ resp' = rejection(r.problem)
                  /\ call' = [call EXCEPT !.replies = @ + 1]
             ELSE /\ pc' = "signals"
                  /\ resp' = resp
                  /\ call' = [call EXCEPT !.fetches = @ + 2]
    /\ UNCHANGED cfg
    /\ CacheUntouched

\* one of the two signal embeddings rejects: the catch block replies
SignalsFail ==
    /\ pc = "signals"
    /\ pc' = "done"
    /\ resp' = failureReply(req.route)
    /\ call' = [call EXCEPT !.failed = TRUE, !.replies = @ + 1]
    /\ UNCHANGED <<req, cfg>>
    /\ CacheUntouched

\* the reply of the boostedScore route
boostedReply(cos, r, overlap) ==
    LET b == boostedScore(cos, overlap, r.jd, r.overview)
    IN  [ kind |-> "ok", status |-> 200, score |-> b.score, cosine |-> toFixed4(cos),
          overlaps |-> [ functions |-> overlap.funcHit, skills |-> overlap.skillHit,
                         languages |-> overlap.langHit, achievementsOverlap |-> overlap.achHit,
                         yoeCheck |-> overlap.yoeCheck, educationCheck |-> overlap.eduCheck,
                         leadgenRequired |-> overlap.jdLeadgenRequired,
                         leadgenPresent |-> overlap.resumeLeadgenPresent ],
          reasons |-> [boosts |-> b.boosts, penalties |-> b.penalties, gates |-> b.gates] ]

\* both signal embeddings arrive: cosine, overlaps, then the gates (configured
\* composer) or the whole score (boostedScore)
SignalsOk ==
    /\ pc = "signals"
    /\ LET overview == req.overview
           jd       == req.jd
           overlaps == computeOverlaps(overview, jd)
           overlap  == intersections(overview, jd)
           yoe      == overview.yoe
           yoeMin   == jd.requirements.yoeMin
           eduCand  == overview.education
           eduMin   == jd.requirements.educationMin
       IN  \E cos \in SignalCosines :
              IF req.route = "boosted"
              THEN /\ pc' = "done"
                   /\ resp' = boostedReply(cos, req, overlap)
                   /\ call' = [call EXCEPT !.cos = cos, !.replies = @ + 1]
              ELSE IF yoeGate(yoe, yoeMin)
              THEN /\ pc' = "done"
                   /\ resp' = gatedReply(cos, overlaps,
                                         [type |-> "yoe_below_min", yoe |-> yoe, yoeMin |-> yoeMin])
                   /\ call' = [call EXCEPT !.cos = cos, !.replies = @ + 1]
              ELSE IF educationGate(eduCand, eduMin)
              THEN /\ pc' = "done"
                   /\ resp' = gatedReply(cos, overlaps,
                                         [type |-> "education_below_min", edu |-> eduCand,
                                          eduMin |-> eduMin])
                   /\ call' = [call EXCEPT !.cos = cos, !.replies = @ + 1]
              ELSE /\ pc' = "soft"
                   /\ resp' = resp
                   /\ call' = [call EXCEPT !.cos = cos, !.overlaps = overlaps]
    /\ UNCHANGED <<req, cfg>>
    /\ CacheUntouched

\* soft skill matches, soft function matches, soft industry matches, one after
\* the other, then boosts, penalties, clamp and the reply; a fetch that throws
\* ends in the catch block
SoftMatches ==
    /\ pc = "soft"
    /\ LET overview == req.overview
           jd       == req.jd
           overlaps == call.overlaps
       IN  \E prov \in Providers :
          LET sk  == softSkillMatches(overlaps.resumeSkills, overlaps.jdSkills,
                                      SOFT_SKILL_cosineThreshold, prov)
              fn  == softStringMatches(overlaps.resumeFunctions, overlaps.jdFunctions,
                                       SOFT_FUNC_cosineThreshold,
                                       CeilDiv(SOFT_FUNC_maxTotal, SOFT_FUNC_perMatch) * 10, prov)
              ind == softStringMatches(<<>>, overlaps.jdIndustries, SOFT_INDUSTRY_cosineThreshold,
                                       CeilDiv(SOFT_INDUSTRY_maxTotal, SOFT_INDUSTRY_perMatch) * 10,
                                       prov)
              n   == sk.n + (IF sk.err THEN 0 ELSE fn.n + (IF fn.err THEN 0 ELSE ind.n))
              c   == composeScore(call.cos, overlaps, sk.matches, fn.matches, jd, overview)
          IN  IF sk.err \/ fn.err \/ ind.err
              THEN /\ resp' = failureReply(req.route)
                   /\ call' = [call EXCEPT !.fetches = @ + n, !.failed = TRUE, !.replies = @ + 1]
              ELSE /\ resp' =
                        [ kind |-> "ok", status |-> 200, score |-> c.score, cosine |-> toFixed4(call.cos),
                          overlaps |-> [ functions |-> overlaps.functionsOverlap,
                                         skills |-> overlaps.skillsOverlap,
                                         languages |-> overlaps.languagesOverlap,
                                         achievementsOverlap |-> overlaps.achievementsOverlap,
                                         yoeCheck |-> overlaps.yoeCheck,
                                         educationCheck |-> overlaps.educationCheck,
                                         softSkillMatches |-> sk.matches,
                                         softFunctionMatches |-> fn.matches ],
                          reasons |-> [boosts |-> c.boosts, penalties |-> c.penalties,
                                       gates |-> <<>>] ]
                   /\ call' = [call EXCEPT !.fetches = @ + n, !.replies = @ + 1]
    /\ pc' = "done"
    /\ UNCHANGED <<req, cfg>>
    /\ CacheUntouched

RouteInit ==
    /\ pc = "idle"
    /\ req = NoReq
    /\ resp = NoResp
    /\ call = [fetches |-> 0, failed |-> FALSE, replies |-> 0, cos |-> ZeroCos, overlaps |-> <<>>]

CacheIdle ==
    /\ now = 0
    /\ clock = 0
    /\ cache = <<>>
    /\ embedCache = <<>>
    /\ gets = <<>>
    /\ provCalls = <<>>

Init ==
    /\ RouteInit
    /\ cfg = [yoeToleranceYears |-> GATES_yoeToleranceYears]
    /\ CacheIdle

Next == Receive \/ SignalsFail \/ SignalsOk \/ SoftMatches

Spec == Init /\ [][Next]_vars

\* the same handler under a deployment whose match-weights.js sets another
\* GATES.yoeToleranceYears
MaxTolerance == 2

ConfigInit ==
    /\ RouteInit
    /\ cfg \in {[yoeToleranceYears |-> t] : t \in 0..MaxTolerance}
    /\ CacheIdle

ConfigSpec == ConfigInit /\ [][Next]_vars

-----------------------------------------------------------------------------
(* the claims about gates and score *)

Replied == pc = "done" /\ resp.kind = "ok"

hasGate(type) == \E i \in 1..Len(resp.reasons.gates) : resp.reasons.gates[i].type = type

\* the ladder of the specification, lowest first
Ladder == <<EduNone, EduHighSchool, EduDiploma, EduAssociate, EduBachelor, EduMaster, EduPhD>>
onLadder(level) == \E i \in 1..Len(Ladder) : toLowerCase(Ladder[i]) = toLowerCase(level)
ladderPos(level) == CHOOSE i \in 1..Len(Ladder) : toLowerCase(Ladder[i]) = toLowerCase(level)

experienceCondition(tolerance) ==
    /\ req.jd.requirements.yoeMin # NULL
    /\ req.overview.yoe # NULL
    /\ req.overview.yoe < req.jd.requirements.yoeMin - tolerance

educationCondition ==
    /\ onLadder(req.jd.requirements.educationMin)
    /\ onLadder(req.overview.education)
    /\ ladderPos(req.overview.education) < ladderPos(req.jd.requirements.educationMin)

\* C1: whenever the experience gate condition or the education gate condition
\* holds for the inputs of a match result, the returned score is exactly 0.
C1_GatedScoreIsZero ==
    (Replied /\ (experienceCondition(cfg.yoeToleranceYears) \/ educationCondition))
        => resp.score = 0

\* C2: every score returned by a match call is an integer between 0 and 100.
C2_ScoreInRange == Replied => resp.score \in 0..100

sumAmounts(entries) == SumTo([i \in 1..Len(entries) |-> entries[i].amount], Len(entries))

\* a reply with cosine 1 whose base plus boosts exceeds 100 and whose score is 100
C2_ClampReached ==
    /\ Replied
    /\ resp.cosine = One
    /\ resp.reasons.penalties = <<>>
    /\ 80 + sumAmounts(resp.reasons.boosts) > 100
    /\ resp.score = 100

\* C3: the experience gate triggers exactly when yoeMin and yoe are set and
\* yoe < yoeMin - tolerance, the tolerance being the configured
\* GATES.yoeToleranceYears.
C3_ExperienceGateFollowsConfig ==
    (Replied /\ req.route = "configured")
        => (hasGate("yoe_below_min") <=> experienceCondition(cfg.yoeToleranceYears))

missingLevel(level) == level \in {NULLSTR, EMPTY, EduUnknown} \/ ~onLadder(level)

\* C5: a missing or unknown value never triggers a gate: no experience gate
\* when yoe or yoeMin is null, no education gate when either level is null,
\* Unknown or off the ladder, and no zero score by gating for such inputs.
C5_MissingNeverGates ==
    Replied =>
        /\ (req.overview.yoe = NULL \/ req.jd.requirements.yoeMin = NULL)
               => ~hasGate("yoe_below_min")
        /\ (missingLevel(req.overview.education) \/ missingLevel(req.jd.requirements.educationMin))
               => ~hasGate("education_below_min")

\* a scored reply (not gated) for a candidate without yoe, the job asking for 5 years
C5_MissingYoeScored ==
    /\ Replied /\ req.route = "configured"
    /\ req.overview.yoe = NULL /\ req.jd.requirements.yoeMin = 5
    /\ req.overview.education = EduUnknown /\ req.jd.requirements.educationMin = EduMaster
    /\ resp.reasons.gates = <<>> /\ resp.score > 0

\* C6: a match call is all-or-nothing: a failed embedding fetch gives one
\* error reply without score or breakdown, and a reply with a score implies
\* that no fetch of the call failed.
C6_AllOrNothing ==
    pc = "done" =>
        /\ call.replies = 1
        /\ call.failed => (resp.kind = "error" /\ DOMAIN resp = {"kind", "status", "code"})
        /\ resp.kind = "ok" => ~call.failed

\* a call that failed in a term fetch, after both signal fetches succeeded
C6_TermFetchFailed ==
    pc = "done" /\ call.failed /\ call.fetches > 2 /\ resp.kind = "error" /\ resp.status = 500

-----------------------------------------------------------------------------
(* the embedding caches: lib/embeddings.js and routes/match.js *)

EMBED_MODEL == "text-embedding-3-small"

\* 24 h, Date.now() being counted in half days
TTL_MS == 2

MaxTime == 2
MaxGets == 2

Texts == {"Sales"}
Prefixes == {"resume", "jd"}
SignalId == "id1"

\* crypto.createHash('sha1').update(s).digest('hex')
sha1(s) ==
    CASE s = "Sales" -> "d0edfb6e8c55c8742a83f0f192886e0e15fa0347"
      [] s = "" -> "da39a3ee5e6b4b0d3255bfef95601890afd80709"

\* `${prefix}:${id}:${EMBED_MODEL}:${h}`, kept as its four parts
signalCacheKey(prefix, id, text) ==
    LET h == sha1(IF text = "" THEN "" ELSE text)
    IN  <<prefix, id, EMBED_MODEL, h>>

\* `${EMBED_MODEL}:${sha1(text)}`
embedKey(text) == <<EMBED_MODEL, sha1(text)>>

\* Map.prototype.set
mapSet(m, key, value) == [k \in DOMAIN m \cup {key} |-> IF k = key THEN value ELSE m[k]]

callsOf(key) == IF key \in DOMAIN provCalls THEN provCalls[key] ELSE 0

isLiveHalfTtl(hit, t) == (t - hit.at) < TTL_MS - 1 /\ hit.model = EMBED_MODEL

\* (now - hit.at) < TTL_MS && hit.model === EMBED_MODEL
isLive(hit, t) == (t - hit.at) < TTL_MS /\ hit.model = EMBED_MODEL

\* the vector of one openai.embeddings.create call: one value per call, so that
\* two calls for the same text are told apart
embeddingOf(text, ordinal) == [text |-> text, call |-> ordinal]

served(impl, key, text, hit) ==
    [ impl |-> impl, key |-> key, text |-> text, t0 |-> now, s0 |-> clock, s1 |-> clock,
      state |-> "hit", vec |-> hit.vec, called |-> FALSE, calls |-> callsOf(key),
      servedAt |-> hit.at, cancelled |-> FALSE ]

awaiting(impl, key, text) ==
    [ impl |-> impl, key |-> key, text |-> text, t0 |-> now, s0 |-> clock, s1 |-> NULL,
      state |-> "pending", vec |-> FAIL, called |-> TRUE, calls |-> callsOf(key) + 1,
      servedAt |-> NULL, cancelled |-> FALSE ]

pendingGets(impl) == {i \in 1..Len(gets) : gets[i].impl = impl /\ gets[i].state = "pending"}

onProviderErrorNegative(c, key, t) == mapSet(c, key, [vec |-> FAIL, at |-> t, model |-> EMBED_MODEL])

\* the rejected await leaves getEmbedding before cache.set
onProviderError(c, key, t) == c

Tick ==
    /\ now < MaxTime
    /\ now' = now + 1
    /\ UNCHANGED <<clock, cache, embedCache, gets, provCalls>>
    /\ UNCHANGED routeVars

\* lib/embeddings.js getEmbedding, up to its return or its await
LibGetEmbedding ==
    /\ Len(gets) < MaxGets
    /\ \E text \in Texts, prefix \in Prefixes :
        LET cacheKey == signalCacheKey(prefix, SignalId, text)
        IN  IF cacheKey \in DOMAIN cache /\ isLive(cache[cacheKey], now)
            THEN /\ gets' = Append(gets, served("lib", cacheKey, text, cache[cacheKey]))
                 /\ UNCHANGED provCalls
            ELSE /\ gets' = Append(gets, awaiting("lib", cacheKey, text))
                 /\ provCalls' = mapSet(provCalls, cacheKey, callsOf(cacheKey) + 1)
    /\ clock' = clock + 1
    /\ UNCHANGED <<now, cache, embedCache>>
    /\ UNCHANGED routeVars

\* lib/embeddings.js getEmbedding, after the await: at is the time of the call's start
LibEmbeddingCreated ==
    /\ \E i \in pendingGets("lib") :
        LET vec == embeddingOf(gets[i].text, clock)
        IN  /\ cache' = mapSet(cache, gets[i].key, [vec |-> vec, at |-> gets[i].t0, model |-> EMBED_MODEL])
            /\ gets' = [gets EXCEPT ![i].state = "ok", ![i].vec = vec, ![i].s1 = clock]
    /\ clock' = clock + 1
    /\ UNCHANGED <<now, embedCache, provCalls>>
    /\ UNCHANGED routeVars

LibEmbeddingFailed ==
    /\ \E i \in pendingGets("lib") :
        /\ cache' = onProviderError(cache, gets[i].key, gets[i].t0)
        /\ gets' = [gets EXCEPT ![i].state = "failed", ![i].s1 = clock]
    /\ clock' = clock + 1
    /\ UNCHANGED <<now, embedCache, provCalls>>
    /\ UNCHANGED routeVars

\* routes/match.js getEmbedding, up to its return or its await
RouteGetEmbedding ==
    /\ Len(gets) < MaxGets
    /\ \E text \in Texts :
        LET key == embedKey(text)
        IN  IF key \in DOMAIN embedCache
            THEN /\ gets' = Append(gets, served("match", key, text, embedCache[key]))
                 /\ UNCHANGED provCalls
            ELSE /\ gets' = Append(gets, awaiting("match", key, text))
                 /\ provCalls' = mapSet(provCalls, key, callsOf(key) + 1)
    /\ clock' = clock + 1
    /\ UNCHANGED <<now, cache, embedCache>>
    /\ UNCHANGED routeVars

\* routes/match.js getEmbedding, after the await: at is Date.now() of the set
RouteEmbeddingCreated ==
    /\ \E i \in pendingGets("match") :
        LET vec == embeddingOf(gets[i].text, clock)
        IN  /\ embedCache' = mapSet(embedCache, gets[i].key, [vec |-> vec, model |-> EMBED_MODEL, at |-> now])
            /\ gets' = [gets EXCEPT ![i].state = "ok", ![i].vec = vec, ![i].s1 = clock]
    /\ clock' = clock + 1
    /\ UNCHANGED <<now, cache, provCalls>>
    /\ UNCHANGED routeVars

RouteEmbeddingFailed ==
    /\ \E i \in pendingGets("match") :
        /\ embedCache' = onProviderError(embedCache, gets[i].key, now)
        /\ gets' = [gets EXCEPT ![i].state = "failed", ![i].s1 = clock]
    /\ clock' = clock + 1
    /\ UNCHANGED <<now, cache, provCalls>>
    /\ UNCHANGED routeVars

CacheNext ==
    \/ Tick
    \/ LibGetEmbedding
    \/ LibEmbeddingCreated
    \/ LibEmbeddingFailed
    \/ RouteGetEmbedding
    \/ RouteEmbeddingCreated
    \/ RouteEmbeddingFailed

CacheSpec == Init /\ [][CacheNext]_vars

\* the caller of a pending getEmbedding gives up (its deadline passes, its
\* connection closes): getEmbedding takes no signal and passes none to
\* openai.embeddings.create, so nothing of the call changes
CallerCancels ==
    /\ \E i \in 1..Len(gets) :
        /\ gets[i].state = "pending" /\ ~gets[i].cancelled
        /\ gets' = [gets EXCEPT ![i].cancelled = TRUE]
    /\ UNCHANGED <<now, clock, cache, embedCache, provCalls>>
    /\ UNCHANGED routeVars

CancelNext == CacheNext \/ CallerCancels

CancelSpec == Init /\ [][CancelNext]_vars

-----------------------------------------------------------------------------
(* the claims about the embedding caches *)

Gets == 1..Len(gets)

sameKey(i, j) == gets[i].impl = gets[j].impl /\ gets[i].key = gets[j].key

\* get j started after get i had returned a vector it fetched, inside the TTL
\* of the entry that i stored, i's provider call being the only one for the key
secondGet(i, j) ==
    /\ sameKey(i, j)
    /\ gets[i].state = "ok"
    /\ gets[j].s0 > gets[i].s1
    /\ gets[j].impl = "lib" => gets[j].t0 - gets[i].t0 < TTL_MS
    /\ gets[j].calls - (IF gets[j].called THEN 1 ELSE 0) = 1

\* C7: after one successful get for a key, a second get for the same key
\* inside the TTL returns the same vector and makes no provider call: the
\* provider call count of the key stays at 1.
C7_CacheIdempotence ==
    \A i \in Gets : \A j \in Gets :
        secondGet(i, j) =>
            /\ gets[j].state = "hit"
            /\ gets[j].vec = gets[i].vec
            /\ ~gets[j].called
            /\ gets[j].calls = 1

\* a second get served from the cache one tick after the first one stored its entry
C7_SecondGetServed ==
    \E i \in Gets : \E j \in Gets :
        /\ secondGet(i, j)
        /\ gets[j].impl = "lib" /\ gets[j].t0 = gets[i].t0 + 1
        /\ gets[j].state = "hit" /\ provCalls[gets[j].key] = 1

\* C8: two get calls for the same key that overlap in time cause one provider
\* call only: no two provider calls for one key are in flight together.
C8_SingleFlight ==
    \A i \in Gets : \A j \in Gets :
        (i # j /\ sameKey(i, j) /\ gets[i].state = "pending") => gets[j].state # "pending"

\* C9: an entry is served only while now - createdAt < TTL and its model is
\* the configured model.
C9_ServedOnlyWhileLive ==
    \A j \in Gets :
        gets[j].state = "hit" => gets[j].t0 - gets[j].servedAt < TTL_MS

\* get j is a get for the key of the failed get i, started after i failed and
\* before any provider call for the key has succeeded
retryOf(i, j) ==
    /\ sameKey(i, j)
    /\ gets[i].state = "failed"
    /\ gets[j].s0 > gets[i].s1
    /\ \A k \in Gets : (sameKey(i, k) /\ gets[k].state = "ok") => gets[k].s1 > gets[j].s0

cacheOf(i) == IF gets[i].impl = "lib" THEN cache ELSE embedCache

\* C10: a failed provider call is reported to the caller of get and writes no
\* entry, a later get for the key calls the provider again, and its success
\* fills the cache.
C10_FailureLeavesNoEntry ==
    /\ \A i \in Gets : gets[i].state = "failed" => (gets[i].vec = FAIL /\ gets[i].called)
    /\ \A i \in Gets : \A j \in Gets : retryOf(i, j) =>
        /\ gets[j].called
        /\ gets[j].state = "ok" =>
            (gets[j].key \in DOMAIN cacheOf(j) /\ cacheOf(j)[gets[j].key].vec # FAIL)
    /\ \A i \in Gets :
        (gets[i].state = "failed" /\ \A k \in Gets : sameKey(i, k) => gets[k].state # "ok")
            => gets[i].key \notin DOMAIN cacheOf(i)

\* a get whose provider call failed, and a later get for the key that filled the cache
C10_RetryFilled ==
    \E i \in Gets : \E j \in Gets :
        /\ retryOf(i, j)
        /\ gets[j].impl = "lib" /\ gets[j].state = "ok"
        /\ cache[gets[j].key].vec = gets[j].vec

-----------------------------------------------------------------------------
(* routes/resume-extract.js: the term matcher that reports the best resume
   term of every JD term, and the /v1/match route that returns its matches *)

\* c > best.cosine: the cosine c against a value k that toFixed4 has rounded
exceedsFixed(c, k) ==
    LET x == One * c.dot
    IN  IF x >= 0 THEN (k < 0 \/ x * x > k * k * c.nn)
        ELSE (k < 0 /\ x * x < k * k * c.nn)

NoBest == [kind |-> "none"]

\* the entry pushed for a JD term found in Lset
exactPair(left, tok) == [left |-> left, right |-> tok, cosine |-> One, kind |-> "exact"]

RECURSIVE exactScanKeepsAll(_, _, _, _, _)
exactScanKeepsAll(Lset, Rraw, R, i, acc) ==
    IF i > Len(R) THEN acc
    ELSE exactScanKeepsAll(Lset, Rraw, R, i + 1,
            [acc EXCEPT !.exactPairs = IF R[i] \in Lset THEN Append(@, exactPair(Rraw[i], R[i])) ELSE @,
                        !.Rremaining = Append(@, [tok |-> R[i], original |-> Rraw[i]])])

\* the first loop: for (let i = 0; i < R.length; i++), Rraw read at R's index
RECURSIVE exactScan(_, _, _, _, _)
exactScan(Lset, Rraw, R, i, acc) ==
    IF i > Len(R) THEN acc
    ELSE IF R[i] \in Lset
         THEN exactScan(Lset, Rraw, R, i + 1,
                        [acc EXCEPT !.exactPairs = Append(@, exactPair(Rraw[i], R[i]))])
         ELSE exactScan(Lset, Rraw, R, i + 1,
                        [acc EXCEPT !.Rremaining = Append(@, [tok |-> R[i], original |-> Rraw[i]])])

\* for (const lTok of L): st = [err, best, left], left the tokens embedded by getLeftVec
RECURSIVE bestOver(_, _, _, _, _, _)
bestOver(r, rVec, L, k, prov, st) ==
    IF k > Len(L) THEN st
    ELSE LET lTok == L[k]
             lVec == prov[lTok]
         IN  IF lVec = FAIL THEN [st EXCEPT !.err = TRUE, !.left = @ \cup {lTok}]
             ELSE LET c    == cosine(rVec, lVec)
                      best == IF st.best = NoBest \/ exceedsFixed(c, st.best.cosine)
                              THEN [left |-> r.original, right |-> lTok,
                                    cosine |-> toFixed4(c), kind |-> "semantic"]
                              ELSE st.best
                  IN  bestOver(r, rVec, L, k + 1, prov,
                               [st EXCEPT !.best = best, !.left = @ \cup {lTok}])

RECURSIVE semanticScanUnshift(_, _, _, _, _, _)
semanticScanUnshift(Rremaining, L, j, maxTotal, prov, st) ==
    IF j > Len(Rremaining) THEN st
    ELSE LET r    == Rremaining[j]
             rVec == prov[r.tok]
         IN  IF rVec = FAIL THEN [st EXCEPT !.err = TRUE, !.right = @ \cup {r.tok}]
             ELSE LET in == bestOver(r, rVec, L, 1, prov,
                                     [err |-> FALSE, best |-> NoBest, left |-> st.left])
                      ms == IF in.best # NoBest /\ ~in.err
                            THEN <<in.best>> \o st.matches ELSE st.matches
                      s2 == [err |-> in.err, matches |-> ms,
                             right |-> st.right \cup {r.tok}, left |-> in.left]
                  IN  IF in.err \/ Len(ms) >= maxTotal THEN s2
                      ELSE semanticScanUnshift(Rremaining, L, j + 1, maxTotal, prov, s2)

RECURSIVE semanticScanThreshold(_, _, _, _, _, _)
semanticScanThreshold(Rremaining, L, j, maxTotal, prov, st) ==
    IF j > Len(Rremaining) THEN st
    ELSE LET r    == Rremaining[j]
             rVec == prov[r.tok]
         IN  IF rVec = FAIL THEN [st EXCEPT !.err = TRUE, !.right = @ \cup {r.tok}]
             ELSE LET in == bestOver(r, rVec, L, 1, prov,
                                     [err |-> FALSE, best |-> NoBest, left |-> st.left])
                      ms == IF in.best # NoBest /\ ~in.err /\ in.best.cosine >= 8000
                            THEN Append(st.matches, in.best) ELSE st.matches
                      s2 == [err |-> in.err, matches |-> ms,
                             right |-> st.right \cup {r.tok}, left |-> in.left]
                  IN  IF in.err \/ Len(ms) >= maxTotal THEN s2
                      ELSE semanticScanThreshold(Rremaining, L, j + 1, maxTotal, prov, s2)

\* for (const r of Rremaining): st = [err, matches, right, left]
RECURSIVE semanticScan(_, _, _, _, _, _)
semanticScan(Rremaining, L, j, maxTotal, prov, st) ==
    IF j > Len(Rremaining) THEN st
    ELSE LET r    == Rremaining[j]
             rVec == prov[r.tok]
         IN  IF rVec = FAIL THEN [st EXCEPT !.err = TRUE, !.right = @ \cup {r.tok}]
             ELSE LET in == bestOver(r, rVec, L, 1, prov,
                                     [err |-> FALSE, best |-> NoBest, left |-> st.left])
                      ms == IF in.best # NoBest /\ ~in.err
                            THEN Append(st.matches, in.best) ELSE st.matches
                      s2 == [err |-> in.err, matches |-> ms,
                             right |-> st.right \cup {r.tok}, left |-> in.left]
                  IN  IF in.err \/ Len(ms) >= maxTotal THEN s2
                      ELSE semanticScan(Rremaining, L, j + 1, maxTotal, prov, s2)

\* softStringMatches of resume-extract.js: [err, matches, right, left]
topStringMatches(resumeTerms, Rraw, maxTotal, prov) ==
    LET L  == normTokens(resumeTerms)
        R  == normTokens(Rraw)
        ex == exactScan(Range(L), Rraw, R, 1, [exactPairs |-> <<>>, Rremaining |-> <<>>])
        st == [err |-> FALSE, matches |-> ex.exactPairs, right |-> {}, left |-> {}]
    IN  IF L = <<>> \/ ex.Rremaining = <<>> THEN st
        ELSE semanticScan(ex.Rremaining, L, 1, maxTotal, prov, st)

\* softSkillMatches of resume-extract.js
topSkillMatches(resumeSkills, jdSkills, prov) == topStringMatches(resumeSkills, jdSkills, 100, prov)

\* String(a || '').trim() of every entry, the empty ones dropped
trimmed(a) == SelectSeq([i \in 1..Len(a) |-> trim(orEmpty(a[i]))], LAMBDA t : t # EMPTY)

\* the vectors of Promise.all(A.map(t => embedFn(t))), FAIL when one call rejects
embedAll(A, prov) ==
    IF \E i \in 1..Len(A) : prov[A[i]] = FAIL THEN FAIL ELSE [i \in 1..Len(A) |-> prov[A[i]]]

\* the inner loop of matchOutcomesSemantically
RECURSIVE bestPair(_, _, _, _, _, _)
bestPair(A, aVecs, left, bVec, i, best) ==
    IF i > Len(A) THEN best
    ELSE LET cos == cosine(aVecs[i], bVec)
         IN  bestPair(A, aVecs, left, bVec, i + 1,
                      IF best = NoBest \/ exceedsFixed(cos, best.cosine)
                      THEN [left |-> left, right |-> A[i], cosine |-> toFixed4(cos), kind |-> "semantic"]
                      ELSE best)

\* matchOutcomesSemantically: [err, pairs]
matchOutcomesSemantically(resumeAchievements, jdOutcomes, prov) ==
    LET A == trimmed(resumeAchievements)
        B == trimmed(jdOutcomes)
    IN  IF A = <<>> \/ B = <<>> THEN [err |-> FALSE, pairs |-> <<>>]
        ELSE LET aVecs == embedAll(A, prov)
                 bVecs == embedAll(B, prov)
             IN  IF aVecs = FAIL \/ bVecs = FAIL THEN [err |-> TRUE, pairs |-> <<>>]
                 ELSE [err |-> FALSE,
                       pairs |-> [j \in 1..Len(B) |-> bestPair(A, aVecs, B[j], bVecs[j], 1, NoBest)]]

\* computeOverlaps of resume-extract.js
topOverlaps(overview, jd) ==
    LET yoeMin == jd.requirements.yoeMin
        yoe    == overview.yoe
    IN  [ functionsOverlap   |-> intersect(overview.functions, jd.roleOrg.functions, 3),
          skillsOverlap      |-> intersect(overview.topHardSkills, jd.successSignals.topHardSkills, 10),
          languagesOverlap   |-> intersect(overview.languages, jd.logistics.languages, 3),
          yoeCheck           |-> (yoeMin = NULL \/ (yoe # NULL /\ yoe >= yoeMin)),
          educationCheck     |-> educationMeets(overview.education, jd.requirements.educationMin),
          jdLangs            |-> jd.logistics.languages,
          resumeSkills       |-> overview.topHardSkills,
          jdSkills           |-> jd.successSignals.topHardSkills,
          resumeFunctions    |-> overview.functions,
          jdFunctions        |-> jd.roleOrg.functions,
          jdIndustries       |-> jd.successSignals.industryHints,
          resumeAchievements |-> nonEmpty(overview.topAchievements),
          jdOutcomes         |-> nonEmpty(jd.successSignals.keyOutcomes) ]

tBang == <<"!","!","!">>

\* the requests of the route: every pair of skill lists, every pair of function
\* lists, achievements against outcomes, with and without stored full texts
TopSkillSources == {<<>>, <<tSQL, tProspecting>>, <<tProspecting, tSQL>>, <<tBang>>}
TopSkillTargets ==
    {<<>>, <<tSalesforce>>, <<tPython, tSqlLower>>, <<tBang, tSQL, tPython>>, <<tSqlLower, tSalesforce>>,
     <<tPython, tSqlLower, tSalesforce>>}
TopFuncSources == {<<>>, <<tSales>>, <<tSales, tMarketing>>}
TopFuncTargets == {<<>>, <<tSalesSpaced>>, <<tMarketing, tSales>>}

topRequest(fullText, funcs, skills, ach, jFuncs, jSkills, outcomes) ==
    [ route |-> "top", problem |-> "none", fullText |-> fullText,
      overview |-> overviewOf(NULL, NULLSTR, overviewTerms(NULLSTR, funcs, skills, <<>>, ach, NULLSTR)),
      jd |-> jdOf(NULL, NULLSTR, jdTerms(NULLSTR, jFuncs, jSkills, <<>>, outcomes, <<>>)) ]

TopRequests ==
    { topRequest(FALSE, <<tSales>>, s, <<>>, <<tSalesSpaced>>, t, <<>>) :
        s \in TopSkillSources, t \in TopSkillTargets }
    \cup { topRequest(FALSE, s, <<tSQL>>, <<>>, t, <<tSQL>>, <<>>) :
             s \in TopFuncSources, t \in TopFuncTargets }
    \cup { topRequest(f, <<>>, <<>>, a, <<>>, <<>>, o) :
             f \in BOOLEAN, a \in {<<>>, <<tBuiltPipeline>>}, o \in {<<>>, <<tPipeline, tGrewRevenue>>} }
    \cup { [ route |-> "top", problem |-> p, fullText |-> FALSE,
             overview |-> EmptyOverview, jd |-> EmptyJd ] :
             p \in {"no_ids", "resume_not_found", "jd_not_found", "no_overview"} }

TopCosines == {cosine(<<1, 0>>, <<1, 1>>), cosine(<<1, 0>>, <<0, 1>>)}

NoFetch == [right |-> {}, left |-> {}]

\* body, id checks, getResume, getJD, overview check; then both signal
\* embeddings are requested
TopReceive ==
    /\ pc = "idle"
    /\ \E r \in TopRequests :
          /\ req' = r
          /\ IF r.problem # "none"
             THEN /\ pc' = "done"
                  /\ resp' = rejection(r.problem)
                  /\ call' = [call EXCEPT !.replies = @ + 1]
             ELSE /\ pc' = "signals"
                  /\ resp' = resp
                  /\ call' = [call EXCEPT !.fetches = @ + 2]
    /\ UNCHANGED cfg
    /\ CacheUntouched

\* a signal embedding, or a full-text embedding, rejects: the catch block replies
TopSignalsFail ==
    /\ pc = "signals" /\ req.route = "top"
    /\ pc' = "done"
    /\ resp' = failureReply(req.route)
    /\ \E extra \in (IF req.fullText THEN {0, 2} ELSE {0}) :
          call' = [call EXCEPT !.failed = TRUE, !.replies = @ + 1, !.fetches = @ + extra]
    /\ UNCHANGED <<req, cfg>>
    /\ CacheUntouched

\* the signal embeddings (and the full-text embeddings) resolve
TopSignalsOk ==
    /\ pc = "signals" /\ req.route = "top"
    /\ \E cos \in TopCosines, full \in TopCosines :
          call' = [ fetches |-> call.fetches + (IF req.fullText THEN 2 ELSE 0),
                    failed |-> FALSE, replies |-> call.replies, cos |-> cos,
                    overlaps |-> topOverlaps(req.overview, req.jd),
                    fullTextCosine |-> IF req.fullText THEN full ELSE ZeroCos,
                    skill |-> NoFetch, func |-> NoFetch, prov |-> <<>> ]
    /\ pc' = "terms"
    /\ UNCHANGED <<req, resp, cfg>>
    /\ CacheUntouched

\* skill matches, function matches, outcome pairs, then the reply
TopMatched ==
    /\ pc = "terms"
    /\ \E prov \in Providers :
        LET overlaps       == call.overlaps
            skillMatches   == topSkillMatches(overlaps.resumeSkills, overlaps.jdSkills, prov)
            funcMatches    == topStringMatches(overlaps.resumeFunctions, overlaps.jdFunctions, 100, prov)
            outcomePairs   == matchOutcomesSemantically(overlaps.resumeAchievements, overlaps.jdOutcomes, prov)
            fullTextCosine == call.fullTextCosine
        IN  IF skillMatches.err
            THEN /\ resp' = failureReply(req.route)
                 /\ call' = [call EXCEPT !.failed = TRUE, !.replies = @ + 1, !.prov = prov,
                                         !.skill = [right |-> skillMatches.right, left |-> skillMatches.left]]
            ELSE IF funcMatches.err \/ outcomePairs.err
            THEN /\ resp' = failureReply(req.route)
                 /\ call' = [call EXCEPT !.failed = TRUE, !.replies = @ + 1, !.prov = prov,
                                         !.skill = [right |-> skillMatches.right, left |-> skillMatches.left],
                                         !.func = [right |-> funcMatches.right, left |-> funcMatches.left]]
            ELSE /\ resp' = [ kind |-> "ok", status |-> 200,
                              cosine |-> toFixed4(call.cos),
                              fullTextCosine |-> IF fullTextCosine.dot # 0 THEN toFixed4(fullTextCosine) ELSE NULL,
                              functions |-> funcMatches.matches,
                              skills |-> skillMatches.matches,
                              languages |-> overlaps.languagesOverlap,
                              achievementsOverlap |-> outcomePairs.pairs,
                              yoeCheck |-> overlaps.yoeCheck,
                              educationCheck |-> overlaps.educationCheck ]
                 /\ call' = [call EXCEPT !.replies = @ + 1, !.prov = prov,
                                         !.skill = [right |-> skillMatches.right, left |-> skillMatches.left],
                                         !.func = [right |-> funcMatches.right, left |-> funcMatches.left]]
    /\ pc' = "done"
    /\ UNCHANGED <<req, cfg>>
    /\ CacheUntouched

TopNext == TopReceive \/ TopSignalsFail \/ TopSignalsOk \/ TopMatched

TopSpec == Init /\ [][TopNext]_vars

-----------------------------------------------------------------------------
(* the claims about the term matcher *)

TopReplied == pc = "done" /\ req.route = "top" /\ resp.kind = "ok"

\* the two softStringMatches calls of a reply: source terms, target terms,
\* returned matches, tokens embedded
termCalls ==
    { [ source |-> req.overview.topHardSkills, target |-> req.jd.successSignals.topHardSkills,
        matches |-> resp.skills, fetch |-> call.skill ],
      [ source |-> req.overview.functions, target |-> req.jd.roleOrg.functions,
        matches |-> resp.functions, fetch |-> call.func ] }

normForms(terms) == {normalizeToken(terms[i]) : i \in 1..Len(terms)}

ofKind(matches, kind) == SelectSeq(matches, LAMBDA m : m.kind = kind)

\* the targets left for semantic scoring: those whose normal form is not blank
\* and is no source term's normal form
semanticTargets(c) ==
    SelectSeq(c.target, LAMBDA t : normalizeToken(t) \notin normForms(c.source) \cup {EMPTY})

exactlyMatched(c, n) ==
    /\ \E p \in 1..Len(c.matches) :
          c.matches[p].kind = "exact" /\ c.matches[p].right = n /\ c.matches[p].cosine = One
    /\ n \notin c.fetch.right
    /\ Len(ofKind(c.matches, "semantic")) <= Len(semanticTargets(c))

\* C11 as claimed: every target term whose normal form is the normal form of a
\* source term gets an exact match of similarity 1.0, is not embedded, and
\* adds no semantic match.
C11_ExactNeverRescored ==
    TopReplied =>
        \A c \in termCalls : \A i \in 1..Len(c.target) :
            normalizeToken(c.target[i]) \in normForms(c.source)
                => exactlyMatched(c, normalizeToken(c.target[i]))

\* C11 as amended: the same for every target term whose normal form is not blank.
C11_ExactNeverRescoredNonBlank ==
    TopReplied =>
        \A c \in termCalls : \A i \in 1..Len(c.target) :
            (normalizeToken(c.target[i]) # EMPTY /\ normalizeToken(c.target[i]) \in normForms(c.source))
                => exactlyMatched(c, normalizeToken(c.target[i]))

\* a reply with an exact match next to a semantic match, the exact term not embedded
C11_ExactBesideSemantic ==
    /\ TopReplied
    /\ \E p \in 1..Len(resp.skills) : \E q \in 1..Len(resp.skills) :
          /\ resp.skills[p].kind = "exact" /\ resp.skills[p].right = normalizeToken(tSQL)
          /\ resp.skills[q].kind = "semantic"
    /\ normalizeToken(tSQL) \notin call.skill.right
    /\ call.skill.right # {}

\* the cosine of two tokens under the answers the provider gave in this call
tokenCosine(a, b) == cosine(call.prov[a], call.prov[b])

\* the first source token, in input order, of the highest cosine to target token t
firstBest(L, t) ==
    L[CHOOSE k \in 1..Len(L) :
        /\ \A k2 \in 1..Len(L) : ~greater(tokenCosine(t, L[k2]), tokenCosine(t, L[k]))
        /\ \A k2 \in 1..(k - 1) : greater(tokenCosine(t, L[k]), tokenCosine(t, L[k2]))]

\* C12: the semantic match of a target term names the source term of the
\* highest cosine to it, the first such term in source order when several tie.
C12_TopOneFirstOfTies ==
    TopReplied =>
        \A c \in termCalls : \A p \in 1..Len(c.matches) : \A i \in 1..Len(c.target) :
            ( /\ c.matches[p].kind = "semantic"
              /\ c.matches[p].left = c.target[i]
              /\ normalizeToken(c.target[i]) \notin normForms(c.source) \cup {EMPTY} )
                => c.matches[p].right = firstBest(normTokens(c.source), normalizeToken(c.target[i]))

\* m is the match of target term t
matchOf(c, t, m) ==
    \/ m.kind = "exact" /\ m.right = normalizeToken(t)
    \/ m.kind = "semantic" /\ m.left = t /\ normalizeToken(t) \notin normForms(c.source) \cup {EMPTY}

\* C13 as claimed: matches come in target-term input order, exact or semantic.
C13_TargetInputOrder ==
    TopReplied =>
        \A c \in termCalls : \A a \in 1..Len(c.target) : \A b \in 1..Len(c.target) :
            \A p \in 1..Len(c.matches) : \A q \in 1..Len(c.matches) :
                (a < b /\ matchOf(c, c.target[a], c.matches[p]) /\ matchOf(c, c.target[b], c.matches[q]))
                    => p < q

\* the indices of R (the non-blank normal forms of the targets) that satisfy Test
indicesOf(R, Test(_)) == SelectSeq([i \in 1..Len(R) |-> i], LAMBDA i : Test(R[i]))

\* C13 as amended: the exact matches come first, in target input order, and
\* the semantic matches follow, in target input order (each carrying as left
\* the entry of the target list at its index among the non-blank targets).
C13_ExactThenSemanticInOrder ==
    TopReplied =>
        \A c \in termCalls :
            LET L    == normTokens(c.source)
                R    == normTokens(c.target)
                ex   == indicesOf(R, LAMBDA t : t \in Range(L))
                rem  == indicesOf(R, LAMBDA t : t \notin Range(L))
                exM  == ofKind(c.matches, "exact")
                seM  == ofKind(c.matches, "semantic")
            IN  /\ c.matches = exM \o seM
                /\ [k \in 1..Len(exM) |-> exM[k].right] = [k \in 1..Len(ex) |-> R[ex[k]]]
                /\ L # <<>> => [k \in 1..Len(seM) |-> seM[k].left] = [k \in 1..Len(rem) |-> c.target[rem[k]]]

\* a reply with two semantic matches after an exact one
C13_TwoSemanticAfterExact ==
    /\ TopReplied
    /\ Len(resp.skills) = 3
    /\ resp.skills[1].kind = "exact" /\ resp.skills[2].kind = "semantic" /\ resp.skills[3].kind = "semantic"
    /\ resp.skills[2].left # resp.skills[3].left

\* C14 as claimed: no entry when the source list is empty, one entry per
\* target term when it is not.
C14_OneEntryPerTarget ==
    TopReplied =>
        \A c \in termCalls :
            Len(c.matches) = IF c.source = <<>> THEN 0 ELSE Len(c.target)

\* C14 as amended: no entry when no source term has a non-blank normal form,
\* otherwise one entry per target term of non-blank normal form.
C14_OneEntryPerNonBlankTarget ==
    TopReplied =>
        \A c \in termCalls :
            Len(c.matches) = IF normTokens(c.source) = <<>> THEN 0 ELSE Len(normTokens(c.target))

\* a reply whose only entry is a semantic match of cosine 0
C14_ZeroCosineEntry ==
    /\ TopReplied
    /\ Len(req.jd.successSignals.topHardSkills) = 1
    /\ Len(resp.skills) = 1 /\ resp.skills[1].kind = "semantic" /\ resp.skills[1].cosine < 8000

-----------------------------------------------------------------------------
(* the reasons trail of a scored reply *)

\* a reply that neither the experience gate nor the education gate produced
NonGated == Replied /\ ~hasGate("yoe_below_min") /\ ~hasGate("education_below_min")

\* the weight the composer of the request's route multiplies the cosine by
cosineWeight == IF req.route = "boosted" THEN 80 ELSE COSINE_WEIGHT

gateEntry(type) ==
    resp.reasons.gates[CHOOSE i \in 1..Len(resp.reasons.gates) : resp.reasons.gates[i].type = type]

carriesTypeAndAmount(entries) ==
    \A i \in 1..Len(entries) :
        {"type", "amount"} \subseteq DOMAIN entries[i] /\ entries[i].amount \in Int

\* C15 (as stated): for every non-gated result the score is
\* max(0, min(100, round(cosine * cosineWeight) + the amounts in reasons.boosts
\* + the amounts in reasons.penalties)), and every entry carries its type and
\* amount.
C15_ReasonsExplainScore ==
    NonGated =>
        /\ resp.score = clamp(roundTimes(call.cos, cosineWeight)
                              + sumAmounts(resp.reasons.boosts)
                              + sumAmounts(resp.reasons.penalties))
        /\ carriesTypeAndAmount(resp.reasons.boosts)
        /\ carriesTypeAndAmount(resp.reasons.penalties)

\* C15 (amended): for every non-gated result the score is explained by the
\* trail: the penalties count as the cappedAt of a penalty_cap entry when
\* reasons.gates has one and as the sum of their amounts otherwise; base plus
\* boosts plus penalties is replaced by the cappedAt of a skill_cap entry when
\* reasons.gates has one; the result is clamped to 0..100. Every boost and
\* penalty entry carries its type and amount, every cap entry its type and
\* cappedAt.
C15_ReasonsAndCapsExplainScore ==
    NonGated =>
        LET penalties == IF hasGate("penalty_cap") THEN gateEntry("penalty_cap").cappedAt
                         ELSE sumAmounts(resp.reasons.penalties)
            sum       == roundTimes(call.cos, cosineWeight)
                         + sumAmounts(resp.reasons.boosts) + penalties
            score     == IF hasGate("skill_cap") THEN gateEntry("skill_cap").cappedAt ELSE sum
        IN  /\ resp.score = clamp(score)
            /\ carriesTypeAndAmount(resp.reasons.boosts)
            /\ carriesTypeAndAmount(resp.reasons.penalties)
            /\ \A i \in 1..Len(resp.reasons.gates) :
                   {"type", "cappedAt"} \subseteq DOMAIN resp.reasons.gates[i]

\* a reply whose penalties were capped and whose score is above 0
C15_PenaltyCapExplained ==
    /\ NonGated /\ hasGate("penalty_cap") /\ resp.score > 0
    /\ sumAmounts(resp.reasons.penalties) < -20

-----------------------------------------------------------------------------
(* the gate list of a reply of the gated composer *)

yoeEntry ==
    [type |-> "yoe_below_min", yoe |-> req.overview.yoe, yoeMin |-> req.jd.requirements.yoeMin]

eduEntry ==
    [type |-> "education_below_min", edu |-> req.overview.education,
     eduMin |-> req.jd.requirements.educationMin]

listed(entry) == \E i \in 1..Len(resp.reasons.gates) : resp.reasons.gates[i] = entry

\* C16 (as stated): the gate list of a result contains every gate whose
\* condition holds; when the experience and the education condition both hold,
\* both entries are listed, each with its type and the values that triggered it.
C16_EveryHoldingGateListed ==
    (Replied /\ req.route = "configured") =>
        /\ experienceCondition(cfg.yoeToleranceYears) => listed(yoeEntry)
        /\ educationCondition => listed(eduEntry)

\* C16 (amended): the gate list holds the entry of the first gate whose
\* condition holds, the experience gate coming before the education gate, and
\* nothing else; when both conditions hold only the experience entry is listed.
C16_FirstHoldingGateListed ==
    (Replied /\ req.route = "configured") =>
        resp.reasons.gates =
            IF experienceCondition(cfg.yoeToleranceYears) THEN <<yoeEntry>>
            ELSE IF educationCondition THEN <<eduEntry>>
            ELSE <<>>

\* a reply to a request that meets both conditions
C16_BothConditionsOneEntry ==
    /\ Replied /\ req.route = "configured"
    /\ experienceCondition(cfg.yoeToleranceYears) /\ educationCondition
    /\ Len(resp.reasons.gates) = 1 /\ resp.score = 0

-----------------------------------------------------------------------------
(* the signal builders: lib/jd-signal.js, and buildResumeSignal / buildJdSignal
   of the two /v1/match routes. An input object is the sequence of its
   <<key, value>> properties in insertion order. *)

\* obj.key, dflt when the object has no such property
fieldFirstOnly(obj, key, dflt) ==
    IF obj # <<>> /\ obj[1][1] = key THEN obj[1][2] ELSE dflt
field(obj, key, dflt) ==
    IF \E i \in 1..Len(obj) : obj[i][1] = key
    THEN obj[CHOOSE i \in 1..Len(obj) : obj[i][1] = key][2]
    ELSE dflt

\* Array.prototype.join
RECURSIVE join(_, _)
join(a, sep) ==
    IF a = <<>> THEN <<>>
    ELSE IF Len(a) = 1 THEN a[1]
    ELSE a[1] \o sep \o join(Tail(a), sep)

DigitChars == <<"0", "1", "2", "3", "4", "5", "6", "7", "8", "9">>

\* String(n) for an integer n >= 0
RECURSIVE numToString(_)
numToString(n) ==
    IF n < 10 THEN <<DigitChars[n + 1]>>
    ELSE numToString(n \div 10) \o <<DigitChars[(n % 10) + 1]>>

\* x != null ? String(x) : ''
stringOrEmpty(x) == IF x = NULL THEN EMPTY ELSE numToString(x)

\* a.map(norm)
mapNorm(a) == [i \in 1..Len(a) |-> norm(a[i])]

\* a.map(o => norm(o?.text)).filter(Boolean)
textsOf(a) == SelectSeq([i \in 1..Len(a) |-> norm(a[i].text)], LAMBDA t : t # EMPTY)

\* x && y for a string x, and a.length && y for an array a: the falsy left
\* operand ('' or 0) is what filter(Boolean) drops, written '' here
andThen(x, y) == IF x = EMPTY THEN EMPTY ELSE y
andLength(a, y) == IF Len(a) = 0 THEN EMPTY ELSE y

\* .filter(Boolean) on the array of segments
filterBoolean(a) == SelectSeq(a, LAMBDA s : s # EMPTY)

L_TITLE == <<"T", "I", "T", "L", "E">>
L_SENIORITY == <<"S", "E", "N", "I", "O", "R", "I", "T", "Y">>
L_FUNCTIONS == <<"F", "U", "N", "C", "T", "I", "O", "N", "S">>
L_SKILLS == <<"S", "K", "I", "L", "L", "S">>
L_LANGUAGES == <<"L", "A", "N", "G", "U", "A", "G", "E", "S">>
L_EDU == <<"E", "D", "U">>
L_EDU_MIN == <<"E", "D", "U", "_", "M", "I", "N">>
L_YOE == <<"Y", "O", "E">>
L_YOE_MIN == <<"Y", "O", "E", "_", "M", "I", "N">>
L_ACHIEVEMENTS == <<"A", "C", "H", "I", "E", "V", "E", "M", "E", "N", "T", "S">>
L_OUTCOMES == <<"O", "U", "T", "C", "O", "M", "E", "S">>
L_INDUSTRIES == <<"I", "N", "D", "U", "S", "T", "R", "I", "E", "S">>
L_WORKMODE == <<"W", "O", "R", "K", "M", "O", "D", "E">>

Pipe == <<" ", "|", " ">>
Newline == <<"\n">>
CommaSpace == <<",", " ">>
Colon == <<":", " ">>
Space == <<" ">>

\* `LABEL value` and `LABEL: value`
plain(label, value) == label \o Space \o value
colon(label, value) == label \o Colon \o value

\* part_003: the segments of buildResumeSignal before the join
resumeSegments(overview) ==
    LET title      == norm(field(overview, "title", NULLSTR))
        funcs      == join(mapNorm(field(overview, "functions", <<>>)), CommaSpace)
        skills     == join(mapNorm(field(overview, "topHardSkills", <<>>)), CommaSpace)
        outcomes   == join(textsOf(field(overview, "topAchievements", <<>>)), CommaSpace)
        industries == EMPTY
        seniority  == norm(field(overview, "seniorityHint", NULLSTR))
        langs      == join(mapNorm(field(overview, "languages", <<>>)), CommaSpace)
        eduLevel   == norm(field(field(overview, "education", <<>>), "level", NULLSTR))
        yoe        == stringOrEmpty(field(overview, "yoe", NULL))
    IN  filterBoolean(<< plain(L_TITLE, title),
                         andThen(funcs, plain(L_FUNCTIONS, funcs)),
                         andThen(skills, plain(L_SKILLS, skills)),
                         andThen(outcomes, plain(L_OUTCOMES, outcomes)),
                         andThen(industries, plain(L_INDUSTRIES, industries)),
                         andThen(seniority, plain(L_SENIORITY, seniority)),
                         andThen(langs, plain(L_LANGUAGES, langs)),
                         andThen(eduLevel, plain(L_EDU, eduLevel)),
                         andThen(yoe, plain(L_YOE, yoe)) >>)

buildResumeSignal(overview) == join(resumeSegments(overview), Pipe)

\* part_003: the segments of buildJdSignal before the join
jdSegments(jd) ==
    LET ro        == field(jd, "roleOrg", <<>>)
        log       == field(jd, "logistics", <<>>)
        rq        == field(jd, "requirements", <<>>)
        ss        == field(jd, "successSignals", <<>>)
        title     == norm(field(ro, "title", NULLSTR))
        funcs     == join(mapNorm(field(ro, "functions", <<>>)), CommaSpace)
        skills    == join(mapNorm(field(ss, "topHardSkills", <<>>)), CommaSpace)
        outcomes  == join(textsOf(field(ss, "keyOutcomes", <<>>)), CommaSpace)
        inds      == join(mapNorm(field(ss, "industryHints", <<>>)), CommaSpace)
        seniority == norm(field(ro, "seniorityHint", NULLSTR))
        langs     == join(mapNorm(field(log, "languages", <<>>)), CommaSpace)
        eduMin    == norm(field(rq, "educationMin", NULLSTR))
        workMode  == norm(field(field(log, "location", <<>>), "workMode", NULLSTR))
    IN  filterBoolean(<< plain(L_TITLE, title),
                         andThen(funcs, plain(L_FUNCTIONS, funcs)),
                         andThen(skills, plain(L_SKILLS, skills)),
                         andThen(outcomes, plain(L_OUTCOMES, outcomes)),
                         andThen(inds, plain(L_INDUSTRIES, inds)),
                         andThen(seniority, plain(L_SENIORITY, seniority)),
                         andThen(langs, plain(L_LANGUAGES, langs)),
                         andThen(eduMin, plain(L_EDU_MIN, eduMin)),
                         andThen(workMode, plain(L_WORKMODE, workMode)) >>)

buildJdSignal(jd) == join(jdSegments(jd), Pipe)

\* lib/jd-signal.js: the segments of buildJdSignal before the join
libJdSegments(jd) ==
    LET ro        == field(jd, "roleOrg", <<>>)
        log       == field(jd, "logistics", <<>>)
        rq        == field(jd, "requirements", <<>>)
        ss        == field(jd, "successSignals", <<>>)
        title     == norm(field(ro, "title", NULLSTR))
        funcs     == join(mapNorm(field(ro, "functions", <<>>)), CommaSpace)
        skills    == join(mapNorm(field(ss, "topHardSkills", <<>>)), CommaSpace)
        outcomes  == join(textsOf(field(ss, "keyOutcomes", <<>>)), CommaSpace)
        inds      == join(mapNorm(field(ss, "industryHints", <<>>)), CommaSpace)
        seniority == norm(field(ro, "seniorityHint", NULLSTR))
        langs     == join(mapNorm(field(log, "languages", <<>>)), CommaSpace)
        eduMin    == norm(field(rq, "educationMin", NULLSTR))
        workMode  == norm(field(field(log, "location", <<>>), "workMode", NULLSTR))
    IN  filterBoolean(<< plain(L_TITLE, title),
                         andThen(funcs, plain(L_FUNCTIONS, funcs)),
                         andThen(skills, plain(L_SKILLS, skills)),
                         andThen(outcomes, plain(L_OUTCOMES, outcomes)),
                         andThen(inds, plain(L_INDUSTRIES, inds)),
                         andThen(seniority, plain(L_SENIORITY, seniority)),
                         andThen(langs, plain(L_LANGUAGES, langs)),
                         andThen(eduMin, plain(L_EDU_MIN, eduMin)),
                         andThen(workMode, plain(L_WORKMODE, workMode)) >>)

libBuildJdSignal(jd) == join(libJdSegments(jd), Pipe)

\* routes/match.js: the segments of buildResumeSignal before the join
boostedResumeSegments(overview) ==
    LET title     == norm(field(overview, "title", NULLSTR))
        seniority == norm(field(overview, "seniorityHint", NULLSTR))
        funcs     == mapNorm(field(overview, "functions", <<>>))
        skills    == mapNorm(field(overview, "topHardSkills", <<>>))
        langs     == mapNorm(field(overview, "languages", <<>>))
        eduLevel  == norm(field(field(overview, "education", <<>>), "level", NULLSTR))
        yoe       == stringOrEmpty(field(overview, "yoe", NULL))
        ach       == textsOf(field(overview, "topAchievements", <<>>))
    IN  filterBoolean(<< colon(L_TITLE, title),
                         andThen(seniority, colon(L_SENIORITY, seniority)),
                         andLength(funcs, colon(L_FUNCTIONS, join(funcs, CommaSpace))),
                         andLength(skills, colon(L_SKILLS, join(skills, CommaSpace))),
                         andLength(langs, colon(L_LANGUAGES, join(langs, CommaSpace))),
                         andThen(eduLevel, colon(L_EDU, eduLevel)),
                         andThen(yoe, colon(L_YOE, yoe)),
                         andLength(ach, colon(L_ACHIEVEMENTS, join(ach, Pipe))) >>)

boostedBuildResumeSignal(overview) == join(boostedResumeSegments(overview), Newline)

\* routes/match.js: the segments of buildJdSignal before the join
boostedJdSegments(jd) ==
    LET ro        == field(jd, "roleOrg", <<>>)
        log       == field(jd, "logistics", <<>>)
        rq        == field(jd, "requirements", <<>>)
        ss        == field(jd, "successSignals", <<>>)
        title     == norm(field(ro, "title", NULLSTR))
        seniority == norm(field(ro, "seniorityHint", NULLSTR))
        funcs     == mapNorm(field(ro, "functions", <<>>))
        skills    == mapNorm(field(ss, "topHardSkills", <<>>))
        langs     == mapNorm(field(log, "languages", <<>>))
        inds      == mapNorm(field(ss, "industryHints", <<>>))
        outcomes  == textsOf(field(ss, "keyOutcomes", <<>>))
        workMode  == norm(field(field(log, "location", <<>>), "workMode", NULLSTR))
        eduMin    == norm(field(rq, "educationMin", NULLSTR))
        yoeMin    == stringOrEmpty(field(rq, "yoeMin", NULL))
    IN  filterBoolean(<< colon(L_TITLE, title),
                         andThen(seniority, colon(L_SENIORITY, seniority)),
                         andLength(funcs, colon(L_FUNCTIONS, join(funcs, CommaSpace))),
                         andLength(skills, colon(L_SKILLS, join(skills, CommaSpace))),
                         andLength(langs, colon(L_LANGUAGES, join(langs, CommaSpace))),
                         andLength(inds, colon(L_INDUSTRIES, join(inds, CommaSpace))),
                         andThen(workMode, colon(L_WORKMODE, workMode)),
                         andThen(eduMin, colon(L_EDU_MIN, eduMin)),
                         andThen(yoeMin, colon(L_YOE_MIN, yoeMin)),
                         andLength(outcomes, colon(L_OUTCOMES, join(outcomes, Pipe))) >>)

boostedBuildJdSignal(jd) == join(boostedJdSegments(jd), Newline)

-----------------------------------------------------------------------------
(* the inputs of the signal builders and the specification that applies them *)

tRemote == <<"R","e","m","o","t","e">>
tBlank == <<" ", " ">>

\* a string property, left out of the object when the value is undefined
strProp(key, v) == IF v = NULLSTR THEN <<>> ELSE << <<key, v>> >>
\* a numeric property, left out when undefined
numProp(key, n) == IF n = NULL THEN <<>> ELSE << <<key, n>> >>
\* an array property; opt.has tells whether the object has it
arrProp(key, opt) == IF opt.has THEN << <<key, opt.v>> >> ELSE <<>>
\* a nested object, present even when it has no property
objProp(key, o) == << <<key, o>> >>

Absent == [has |-> FALSE, v |-> <<>>]
Arr(v) == [has |-> TRUE, v |-> v]

RECURSIVE reverse(_)
reverse(a) == IF a = <<>> THEN <<>> ELSE Append(reverse(Tail(a)), Head(a))

SignalOverviews ==
    { strProp("title", title) \o strProp("seniorityHint", seniority)
      \o arrProp("functions", funcs) \o arrProp("topHardSkills", skills)
      \o arrProp("languages", langs) \o objProp("education", strProp("level", edu))
      \o numProp("yoe", yoe) \o arrProp("topAchievements", ach) :
        title \in {NULLSTR, tBlank, tSales}, seniority \in {NULLSTR, tMid},
        funcs \in {Absent, Arr(<<EMPTY>>), Arr(<<tSales, tMarketing>>)},
        skills \in {Arr(<<>>), Arr(<<tSQL>>)},
        langs \in {Absent, Arr(<<tEnglish>>)},
        edu \in {NULLSTR, EduBachelor},
        yoe \in {NULL, 0, 12},
        ach \in {Arr(<<>>), Arr(<<[text |-> tBuiltPipeline], [text |-> EMPTY]>>)} }

SignalJds ==
    { objProp("roleOrg", strProp("title", title) \o strProp("seniorityHint", seniority)
                         \o arrProp("functions", funcs))
      \o objProp("logistics", arrProp("languages", langs)
                             \o objProp("location", strProp("workMode", workMode)))
      \o objProp("requirements", strProp("educationMin", eduMin) \o numProp("yoeMin", yoeMin))
      \o objProp("successSignals", arrProp("topHardSkills", Arr(<<tSQL>>))
                                  \o arrProp("keyOutcomes", outcomes)
                                  \o arrProp("industryHints", inds)) :
        title \in {NULLSTR, tSales}, seniority \in {NULLSTR, tMid},
        funcs \in {Absent, Arr(<<EMPTY>>), Arr(<<tSales>>)},
        langs \in {Arr(<<>>), Arr(<<tEnglish>>)},
        workMode \in {NULLSTR, tRemote},
        eduMin \in {NULLSTR, EduMaster}, yoeMin \in {NULL, 5},
        outcomes \in {Arr(<<>>), Arr(<<[text |-> tPipeline]>>)},
        inds \in {Absent, Arr(<<tFintech>>)} }

\* the same object with its properties inserted in the opposite order
reorderOverview(overview) == reverse(overview)
reorderJd(jd) == reverse([i \in 1..Len(jd) |-> <<jd[i][1], reverse(jd[i][2])>>])

reordered(kind, obj) == IF kind = "resume" THEN reorderOverview(obj) ELSE reorderJd(obj)

SignalInputs ==
    { [route |-> "signal", kind |-> "resume", order |-> "given", obj |-> o] :
        o \in SignalOverviews }
    \cup { [route |-> "signal", kind |-> "resume", order |-> "reversed",
            obj |-> reorderOverview(o)] : o \in SignalOverviews }
    \cup { [route |-> "signal", kind |-> "jd", order |-> "given", obj |-> o] : o \in SignalJds }
    \cup { [route |-> "signal", kind |-> "jd", order |-> "reversed", obj |-> reorderJd(o)] :
            o \in SignalJds }

\* the segments and the text a builder makes of an object
segmentsOf(builder, obj) ==
    CASE builder = "resume"         -> resumeSegments(obj)
      [] builder = "jd"             -> jdSegments(obj)
      [] builder = "lib_jd"         -> libJdSegments(obj)
      [] builder = "boosted_resume" -> boostedResumeSegments(obj)
      [] builder = "boosted_jd"     -> boostedJdSegments(obj)

signalOf(builder, obj) ==
    CASE builder = "resume"         -> buildResumeSignal(obj)
      [] builder = "jd"             -> buildJdSignal(obj)
      [] builder = "lib_jd"         -> libBuildJdSignal(obj)
      [] builder = "boosted_resume" -> boostedBuildResumeSignal(obj)
      [] builder = "boosted_jd"     -> boostedBuildJdSignal(obj)

Built(kind, builder) ==
    /\ pc = "signal" /\ req.kind = kind
    /\ pc' = "done"
    /\ resp' = [ kind |-> "signal", builder |-> builder,
                 segments |-> segmentsOf(builder, req.obj), text |-> signalOf(builder, req.obj) ]
    /\ UNCHANGED <<req, call, cfg>>
    /\ CacheUntouched

BuildResumeSignal == Built("resume", "resume")
BuildJdSignal == Built("jd", "jd")
LibBuildJdSignal == Built("jd", "lib_jd")
BoostedBuildResumeSignal == Built("resume", "boosted_resume")
BoostedBuildJdSignal == Built("jd", "boosted_jd")

SignalInit ==
    /\ pc = "signal"
    /\ req \in SignalInputs
    /\ resp = NoResp
    /\ call = [fetches |-> 0, failed |-> FALSE, replies |-> 0, cos |-> ZeroCos, overlaps |-> <<>>]
    /\ cfg = [yoeToleranceYears |-> GATES_yoeToleranceYears]
    /\ CacheIdle

SignalNext ==
    \/ BuildResumeSignal
    \/ BuildJdSignal
    \/ LibBuildJdSignal
    \/ BoostedBuildResumeSignal
    \/ BoostedBuildJdSignal

SignalSpec == SignalInit /\ [][SignalNext]_vars

-----------------------------------------------------------------------------
(* the claims about signals *)

SignalBuilt == pc = "done" /\ resp.kind = "signal"

Labels == {L_TITLE, L_SENIORITY, L_FUNCTIONS, L_SKILLS, L_LANGUAGES, L_EDU, L_EDU_MIN,
           L_YOE, L_YOE_MIN, L_ACHIEVEMENTS, L_OUTCOMES, L_INDUSTRIES, L_WORKMODE}

\* the label of a segment: its text before the first space, without the colon
labelOf(seg) ==
    LET sp  == CHOOSE i \in 1..Len(seg) : seg[i] = " " /\ \A j \in 1..(i - 1) : seg[j] # " "
        raw == SubSeq(seg, 1, sp - 1)
    IN  IF raw # <<>> /\ raw[Len(raw)] = ":" THEN SubSeq(raw, 1, Len(raw) - 1) ELSE raw

\* the value of a segment: its text after the label and the separator
valueOf(seg) ==
    LET sp == CHOOSE i \in 1..Len(seg) : seg[i] = " " /\ \A j \in 1..(i - 1) : seg[j] # " "
    IN  SubSeq(seg, sp + 1, Len(seg))

\* C17: a signal has a labeled segment only for a field that has a value: no
\* segment of any signal is a label with an empty value, the title included.
C17_NoEmptySegment ==
    SignalBuilt => \A i \in 1..Len(resp.segments) :
                       /\ labelOf(resp.segments[i]) \in Labels
                       /\ valueOf(resp.segments[i]) # EMPTY

\* the label order of the specification: title, seniority, functions, skills,
\* languages, education, experience, achievements/outcomes, industry, work-mode
SpecOrder ==
    << {L_TITLE}, {L_SENIORITY}, {L_FUNCTIONS}, {L_SKILLS}, {L_LANGUAGES}, {L_EDU, L_EDU_MIN},
       {L_YOE, L_YOE_MIN}, {L_ACHIEVEMENTS, L_OUTCOMES}, {L_INDUSTRIES}, {L_WORKMODE} >>

\* the label order of each builder's array of segments
PipeOrder ==
    << {L_TITLE}, {L_FUNCTIONS}, {L_SKILLS}, {L_OUTCOMES}, {L_INDUSTRIES}, {L_SENIORITY},
       {L_LANGUAGES}, {L_EDU, L_EDU_MIN}, {L_YOE}, {L_WORKMODE} >>
BoostedResumeOrder ==
    << {L_TITLE}, {L_SENIORITY}, {L_FUNCTIONS}, {L_SKILLS}, {L_LANGUAGES}, {L_EDU}, {L_YOE},
       {L_ACHIEVEMENTS} >>
BoostedJdOrder ==
    << {L_TITLE}, {L_SENIORITY}, {L_FUNCTIONS}, {L_SKILLS}, {L_LANGUAGES}, {L_INDUSTRIES},
       {L_WORKMODE}, {L_EDU_MIN}, {L_YOE_MIN}, {L_OUTCOMES} >>

orderOf(builder) ==
    CASE builder \in {"resume", "jd", "lib_jd"} -> PipeOrder
      [] builder = "boosted_resume"             -> BoostedResumeOrder
      [] builder = "boosted_jd"                 -> BoostedJdOrder

inOrder(segments, order) ==
    /\ \A i \in 1..Len(segments) : \E k \in 1..Len(order) : labelOf(segments[i]) \in order[k]
    /\ \A i, j \in 1..Len(segments) :
           i < j => (CHOOSE k \in 1..Len(order) : labelOf(segments[i]) \in order[k])
                    < (CHOOSE k \in 1..Len(order) : labelOf(segments[j]) \in order[k])

sameForReordered == signalOf(resp.builder, reordered(req.kind, req.obj)) = resp.text

\* C18 (as stated): the segments of every signal appear in the label order
\* title, seniority, functions, skills, languages, education, experience,
\* achievements/outcomes, industry, work-mode, whatever the order of the fields
\* of the input object.
C18_SpecLabelOrder ==
    SignalBuilt => inOrder(resp.segments, SpecOrder) /\ sameForReordered

\* C18 (amended): the segments of every signal appear in the label order of
\* the builder that made it (PipeOrder, BoostedResumeOrder, BoostedJdOrder),
\* whatever the order of the fields of the input object.
C18_BuilderLabelOrder ==
    SignalBuilt => inOrder(resp.segments, orderOf(resp.builder)) /\ sameForReordered

\* a job signal of nine segments built from an object with reversed fields
C18_ReversedFullJd ==
    /\ SignalBuilt /\ resp.builder = "lib_jd" /\ req.order = "reversed"
    /\ Len(resp.segments) = 9
    /\ req.obj[1][1] = "successSignals"

-----------------------------------------------------------------------------
(* the claims about penalties *)

penaltyEntries(types) ==
    SelectSeq(resp.reasons.penalties, LAMBDA e : e.type \in types)

\* the languages the job lists and the candidate has, compared without case
\* and outer blanks
listedLanguages(langs) ==
    {toLowerCase(trim(orEmpty(langs[i]))) : i \in 1..Len(langs)} \ {EMPTY}

jobLanguages == listedLanguages(req.jd.logistics.languages)
candidateLanguages == listedLanguages(req.overview.languages)

languageMissing == jobLanguages # {} /\ jobLanguages \cap candidateLanguages = {}
onlyEnglish == jobLanguages = {<<"e","n","g","l","i","s","h">>}

LanguagePenaltyTypes == {"language_missing", "language_gate"}

\* C19: a language penalty is applied exactly when the job lists at least one
\* language and none of them overlaps the candidate's languages, and its
\* magnitude is larger when the job asks for more than just English than when
\* it lists only English: an English-only penalty is smaller than the
\* language-missing penalty of the configuration, any other is at least that.
C19_LanguagePenalty ==
    NonGated =>
        LET entries == penaltyEntries(LanguagePenaltyTypes)
        IN  /\ (entries # <<>>) <=> languageMissing
            /\ Len(entries) <= 1
            /\ \A i \in 1..Len(entries) :
                   /\ entries[i].amount < 0
                   /\ onlyEnglish => Abs(entries[i].amount) < Abs(PENALTIES_languageMissing)
                   /\ ~onlyEnglish => Abs(entries[i].amount) >= Abs(PENALTIES_languageMissing)

lower(s) == toLowerCase(orEmpty(s))

seniorityMismatch ==
    /\ lower(req.jd.roleOrg.seniorityHint) \in {toLowerCase(tJunior), toLowerCase(tMid)}
    /\ lower(req.overview.seniorityHint) \in {toLowerCase(tLeadHead), toLowerCase(tDirector)}

\* C20: a seniority-mismatch penalty is applied whenever the job's seniority is
\* Junior or Mid and the candidate's is Lead/Head or Director+ (in any letter
\* case), and its magnitude is smaller than that of the language-missing
\* penalty.
C20_SeniorityPenalty ==
    (NonGated /\ seniorityMismatch) =>
        LET entries == penaltyEntries({"seniority_mismatch"})
        IN  /\ Len(entries) = 1
            /\ entries[1].amount < 0
            /\ Abs(entries[1].amount) < Abs(PENALTIES_languageMissing)

-----------------------------------------------------------------------------
(* the claims about rejected requests *)

\* C21: a match request whose inputs are missing or malformed (no ids, unknown
\* resume, unknown JD, resume without overview, profile or job that is not an
\* object) is rejected with an error and no embedding was requested for it.
C21_RejectedBeforeEmbedding ==
    (pc = "done" /\ req.route \in Routes /\ req.problem # "none")
        => (resp.kind = "error" /\ call.fetches = 0)

-----------------------------------------------------------------------------
(* the claim about cancellation *)

\* C22: a caller's deadline or cancellation aborts its in-flight embedding
\* calls, and a cancelled caller does not go on waiting for a fetch: no
\* getEmbedding call whose caller has cancelled is still pending.
C22_CancelledCallerNotWaiting ==
    \A i \in 1..Len(gets) : gets[i].cancelled => gets[i].state # "pending"

-----------------------------------------------------------------------------
(* lib/text.js, first version: normalizeToken with plural stripping, and the
   specification that applies both versions to a term and its plural *)

\* the characters of the terms below that /[\p{P}\p{S}]/u matches
PunctChars == {"-", "+", "&", "/", "#", ".", "!"}

\* t.replace(PUNCT_RE, ' '): every run of punctuation becomes one space
RECURSIVE replacePunct(_)
replacePunct(s) ==
    IF s = <<>> THEN <<>>
    ELSE IF Head(s) \in PunctChars
         THEN IF Len(s) > 1 /\ s[2] \in PunctChars THEN replacePunct(Tail(s))
              ELSE <<" ">> \o replacePunct(Tail(s))
         ELSE <<Head(s)>> \o replacePunct(Tail(s))

endsWith(t, suffix) ==
    Len(t) >= Len(suffix) /\ SubSeq(t, Len(t) - Len(suffix) + 1, Len(t)) = suffix

\* normalizeToken of lib/text.js 3-12
normalizeToken1(s) ==
    IF s = NULLSTR \/ s = EMPTY THEN EMPTY
    ELSE LET t1 == trim(toLowerCase(s))
             t2 == replacePunct(t1)
             t3 == trim(collapseSpaces(t2))
         IN  IF endsWith(t3, <<"e", "s">>) THEN SubSeq(t3, 1, Len(t3) - 2)
             ELSE IF endsWith(t3, <<"s">>) THEN SubSeq(t3, 1, Len(t3) - 1)
             ELSE t3

\* Array.from(new Set(a)): the first occurrence of each element, in order
RECURSIVE unique(_)
unique(a) ==
    IF a = <<>> THEN <<>>
    ELSE LET rest == unique(SubSeq(a, 1, Len(a) - 1))
         IN  IF a[Len(a)] \in Range(rest) THEN rest ELSE Append(rest, a[Len(a)])

RECURSIVE intersect1From(_, _, _, _, _)
intersect1From(A, Bset, limit, i, out) ==
    IF i > Len(A) THEN out
    ELSE LET nxt == IF A[i] \in Bset THEN Append(out, A[i]) ELSE out
         IN  IF Len(nxt) >= limit THEN nxt ELSE intersect1From(A, Bset, limit, i + 1, nxt)

\* intersect of lib/text.js 14-23
intersect1(a, b, limit) ==
    LET A    == unique(SelectSeq([i \in 1..Len(a) |-> normalizeToken1(a[i])],
                                 LAMBDA t : t # EMPTY))
        Bset == {normalizeToken1(b[i]) : i \in 1..Len(b)} \ {EMPTY}
    IN  intersect1From(A, Bset, limit, 1, <<>>)

\* the terms: every string of one to three of these characters
TermChars == {"a", "e", "s", "X", "S", "-"}
MaxTermLen == 3
NormTerms == UNION { [1..n -> TermChars] : n \in 1..MaxTermLen }

NormInputs ==
    { [route |-> "normalize", term |-> t, plural |-> t \o <<s>>] :
        t \in NormTerms, s \in {"s", "S"} }

Normalized(version, tok, pluralTok, exact) ==
    /\ pc = "normalize"
    /\ pc' = "done"
    /\ resp' = [ kind |-> "tokens", version |-> version, tok |-> tok, pluralTok |-> pluralTok,
                 exact |-> exact ]
    /\ UNCHANGED <<req, call, cfg>>
    /\ CacheUntouched

\* lib/text.js, first version, on the term and on its plural
NormalizeToken1 ==
    Normalized(1, normalizeToken1(req.term), normalizeToken1(req.plural),
               intersect1(<<req.term>>, <<req.plural>>, NoLimit))

\* lib/text.js, second version
NormalizeToken ==
    Normalized(2, normalizeToken(req.term), normalizeToken(req.plural),
               intersect(<<req.term>>, <<req.plural>>, NoLimit))

NormInit ==
    /\ pc = "normalize"
    /\ req \in NormInputs
    /\ resp = NoResp
    /\ call = [fetches |-> 0, failed |-> FALSE, replies |-> 0, cos |-> ZeroCos, overlaps |-> <<>>]
    /\ cfg = [yoeToleranceYears |-> GATES_yoeToleranceYears]
    /\ CacheIdle

NormNext == NormalizeToken1 \/ NormalizeToken

NormSpec == NormInit /\ [][NormNext]_vars

\* C23: a term and its plural formed by appending "s" (in any letter case)
\* normalize to the same token, and the two are reported as an exact match.
C23_PluralSameToken ==
    (pc = "done" /\ resp.kind = "tokens") =>
        /\ resp.tok = resp.pluralTok
        /\ resp.tok # EMPTY => resp.exact = <<resp.tok>>

-----------------------------------------------------------------------------
(* the claim about category caps *)

boostEntries(type) == SelectSeq(resp.reasons.boosts, LAMBDA e : e.type = type)

\* the cap of each boost category of the composer that answered
capOf(type) ==
    IF req.route = "boosted"
    THEN CASE type = "functions"       -> 10
           [] type = "skills"          -> 20
           [] type = "leadgen_present" -> 8
           [] type = "industry"        -> 5
    ELSE CASE type = "functions"             -> BOOSTS_functions
           [] type = "skills"                -> BOOSTS_skills
           [] type = "languages"             -> BOOSTS_languages
           [] type = "achievements"          -> BOOSTS_achievements
           [] type = "soft_skill_matches"    -> 6
           [] type = "soft_function_matches" -> SOFT_FUNC_maxTotal

BoostTypes ==
    IF req.route = "boosted" THEN {"functions", "skills", "leadgen_present", "industry"}
    ELSE {"functions", "skills", "languages", "achievements", "soft_skill_matches",
          "soft_function_matches"}

-----------------------------------------------------------------------------
(* routes/bulk-zip.js: the worker pool that embeds the valid resumes *)

MaxConc == 3
MaxItems == 3

\* the statuses of allItems
BulkItems == UNION { [1..n -> {"ok", "error"}] : n \in 0..MaxItems }

BulkInputs == { [route |-> "bulk", CONC |-> c, items |-> it] : c \in 1..MaxConc, it \in BulkItems }

\* allItems.map((x, i) => (x.status === "ok" ? i : -1)).filter(i => i >= 0)
okIdxOf(items) == SelectSeq([i \in 1..Len(items) |-> i], LAMBDA i : items[i] = "ok")

\* Math.min(CONC, okIdx.length): the number of workers started
poolSizeAll(conc, n) == n
poolSize(conc, n) == Min(conc, n)

\* the cosines Number(cosine(jdVec, rDocVec).toFixed(4)) may give
BulkCosines == {0, 7071, One}

Idle == [state |-> "idle", idx |-> 0]
Waiting(i) == [state |-> "awaiting", idx |-> i]
Returned == [state |-> "returned", idx |-> 0]
Rejected == [state |-> "rejected", idx |-> 0]

bulkReply(cosines) == [kind |-> "bulk", status |-> 200, cosines |-> cosines]
bulkFailure == [kind |-> "error", status |-> 500, code |-> "ZIP_BULK_FAILED"]

\* Promise.all(Array.from({ length }, worker)): every worker runs up to its
\* first await, taking okIdx[cursor++]
BulkStart ==
    /\ pc = "bulk"
    /\ LET okIdx == okIdxOf(req.items)
           k     == poolSize(req.CONC, Len(okIdx))
       IN  /\ call' = [ cursor  |-> k,
                        workers |-> [w \in 1..k |-> Waiting(okIdx[w])],
                        cosines |-> [i \in 1..Len(req.items) |-> NULL],
                        taken   |-> [i \in 1..Len(req.items) |->
                                        IF \E w \in 1..k : okIdx[w] = i THEN 1 ELSE 0],
                        replies |-> 0 ]
           /\ pc' = "pool"
    /\ UNCHANGED <<req, resp, cfg>>
    /\ CacheUntouched

\* embedDocument resolves for worker w: the cosine is stored, then the loop
\* takes the next index or the worker returns
WorkerEmbedded ==
    /\ pc = "pool"
    /\ \E w \in 1..Len(call.workers), c \in BulkCosines :
        /\ call.workers[w].state = "awaiting"
        /\ LET okIdx   == okIdxOf(req.items)
               i       == call.workers[w].idx
               cosines == [call.cosines EXCEPT ![i] = c]
           IN  IF call.cursor < Len(okIdx)
               THEN LET nxt == okIdx[call.cursor + 1]
                    IN  call' = [call EXCEPT !.cosines = cosines,
                                             !.cursor = @ + 1,
                                             !.taken[nxt] = @ + 1,
                                             !.workers[w] = Waiting(nxt)]
               ELSE call' = [call EXCEPT !.cosines = cosines, !.workers[w] = Returned]
    /\ UNCHANGED <<pc, req, resp, cfg>>
    /\ CacheUntouched

\* embedDocument rejects for worker w: the worker ends, Promise.all rejects and
\* the catch block replies once; the other workers go on
WorkerFailed ==
    /\ pc = "pool"
    /\ \E w \in 1..Len(call.workers) :
        /\ call.workers[w].state = "awaiting"
        /\ call' = [call EXCEPT !.workers[w] = Rejected,
                                !.replies = IF @ = 0 THEN 1 ELSE @]
        /\ resp' = IF call.replies = 0 THEN bulkFailure ELSE resp
    /\ UNCHANGED <<pc, req, cfg>>
    /\ CacheUntouched

\* Promise.all resolves: every worker returned; the reply carries the cosines
PoolCompleted ==
    /\ pc = "pool"
    /\ \A w \in 1..Len(call.workers) : call.workers[w].state = "returned"
    /\ pc' = "done"
    /\ resp' = bulkReply(call.cosines)
    /\ call' = [call EXCEPT !.replies = 1]
    /\ UNCHANGED <<req, cfg>>
    /\ CacheUntouched

BulkInit ==
    /\ pc = "bulk"
    /\ req \in BulkInputs
    /\ resp = NoResp
    /\ call = [fetches |-> 0, failed |-> FALSE, replies |-> 0, cos |-> ZeroCos, overlaps |-> <<>>]
    /\ cfg = [yoeToleranceYears |-> GATES_yoeToleranceYears]
    /\ CacheIdle

BulkNext == BulkStart \/ WorkerEmbedded \/ WorkerFailed \/ PoolCompleted

BulkSpec == BulkInit /\ [][BulkNext]_vars

inFlight == Cardinality({w \in 1..Len(call.workers) : call.workers[w].state = "awaiting"})

\* C25: with concurrency limit CONC and n valid resumes, at most min(CONC, n)
\* document embeddings are in flight at any time, every valid index is taken
\* by at most one worker and in order (none is skipped), and when the pool
\* completes every valid resume has been taken once and has a cosine.
C25_PoolBoundedAndComplete ==
    (req.route = "bulk" /\ pc \in {"pool", "done"}) =>
        LET okIdx == okIdxOf(req.items)
            n     == Len(okIdx)
        IN  /\ inFlight <= Min(req.CONC, n)
            /\ \A w1, w2 \in 1..Len(call.workers) :
                   (w1 # w2 /\ call.workers[w1].state = "awaiting"
                    /\ call.workers[w2].state = "awaiting")
                       => call.workers[w1].idx # call.workers[w2].idx
            /\ \A k \in 1..n : call.taken[okIdx[k]] = IF k <= call.cursor THEN 1 ELSE 0
            /\ \A i \in 1..Len(req.items) : req.items[i] # "ok" => call.taken[i] = 0
            /\ pc = "done" =>
                   /\ resp.kind = "bulk"
                   /\ \A i \in 1..Len(req.items) :
                          (req.items[i] = "ok") <=> (resp.cosines[i] # NULL)

\* a completed pool of two workers that embedded three valid resumes
C25_TwoWorkersThreeResumes ==
    /\ req.route = "bulk" /\ pc = "done" /\ resp.kind = "bulk"
    /\ req.CONC = 2 /\ Len(okIdxOf(req.items)) = 3
    /\ \A i \in 1..3 : resp.cosines[i] # NULL

-----------------------------------------------------------------------------
(* the penalty cap of boostedScore *)

penaltyCapEntries == SelectSeq(resp.reasons.gates, LAMBDA e : e.type = "penalty_cap")

\* C26: in a reply of boostedScore the penalties applied to the score are
\* never below -20: when the amounts of reasons.penalties sum to less than
\* -20, exactly -20 is applied and reasons.gates has one penalty_cap entry
\* whose original is that sum; otherwise the sum is applied unchanged and
\* reasons.gates has no penalty_cap entry.
C26_PenaltyCap ==
    (Replied /\ req.route = "boosted") =>
        LET raw     == sumAmounts(resp.reasons.penalties)
            applied == IF raw < -20 THEN -20 ELSE raw
            noSkill == boostEntries("skills") = <<>>
            sum     == roundTimes(call.cos, 80) + sumAmounts(resp.reasons.boosts) + applied
        IN  /\ resp.score = clamp(IF noSkill THEN Min(sum, 75) ELSE sum)
            /\ penaltyCapEntries =
                   IF raw < -20
                   THEN <<[type |-> "penalty_cap", cappedAt |-> -20, original |-> raw]>>
                   ELSE <<>>

\* a boostedScore reply whose penalties sum to -22 and whose score, above 0,
\* lost 20
C26_CappedFromMinus22 ==
    /\ Replied /\ req.route = "boosted" /\ resp.score > 0
    /\ sumAmounts(resp.reasons.penalties) = -22
    /\ Len(penaltyCapEntries) = 1

-----------------------------------------------------------------------------
(* the cache keys the callers of getEmbedding build from a slice of the text *)

\* String.prototype.slice(0, n) / substring(0, n)
slice(s, n) == SubSeq(s, 1, Min(n, Len(s)))

\* n times the character c
repeat(c, n) == [i \in 1..n |-> c]

\* two texts of 101 characters that differ in the last one only, and a short one
LongTextX == repeat("a", 100) \o <<"x">>
LongTextY == repeat("a", 100) \o <<"y">>
KeyTexts == {LongTextX, LongTextY, tSales}

\* resumeStorage: the canonicalText stored under each uuid
StoredIds == {"uuid1", "uuid2"}
canonicalTextOf(id) == IF id = "uuid1" THEN LongTextX ELSE LongTextY

\* a digest stands for the text it was computed from (no collisions)
digest(algorithm, s) == <<algorithm>> \o s

\* signalCacheKey for texts given as character sequences
hashedKey(prefix, id, text) == <<prefix, id, EMBED_MODEL, digest("sha1", text)>>

\* `rs_${sha256(text).slice(0, 12)}`
makeResumeIdFromText(text) == <<"rs_">> \o digest("sha256", text)

\* splitSentences for a text without sentence punctuation: the text itself
\* when it has 20..600 characters
splitSentences(t) == IF Len(t) >= 20 /\ Len(t) <= 600 THEN <<t>> ELSE <<>>

\* the key of sentence i (counted from 0) of an inline CV:
\* signalCacheKey('sent', `cv:${resumeLabel}`, `${i}:${s.slice(0,64)}`)
sentenceKey(i, s) == hashedKey("sent", <<"cv:", "inline">>, numToString(i) \o Colon \o slice(s, 64))

\* getEmbedding(text, cacheKey) of lib/embeddings.js, up to its return or its await
getEmbedding(text, cacheKey) ==
    /\ Len(gets) < MaxGets
    /\ IF cacheKey \in DOMAIN cache /\ isLive(cache[cacheKey], now)
       THEN /\ gets' = Append(gets, served("lib", cacheKey, text, cache[cacheKey]))
            /\ UNCHANGED provCalls
       ELSE /\ gets' = Append(gets, awaiting("lib", cacheKey, text))
            /\ provCalls' = mapSet(provCalls, cacheKey, callsOf(cacheKey) + 1)
    /\ clock' = clock + 1
    /\ UNCHANGED <<now, cache, embedCache>>
    /\ UNCHANGED routeVars

\* routes/resume-extract.js: the full text of a stored resume
FullTextGetEmbedding ==
    \E resumeId \in StoredIds :
        LET resumeFullText == canonicalTextOf(resumeId)
        IN  getEmbedding(resumeFullText,
                         hashedKey("resume_full", <<resumeId>>, slice(resumeFullText, 100)))

\* routes/bulk-zip.js: the text of one PDF of the archive
BulkDocGetEmbedding ==
    \E canonical \in KeyTexts :
        getEmbedding(canonical,
                     hashedKey("bulkDoc", makeResumeIdFromText(canonical), slice(canonical, 4096)))

\* routes/explain-llm.js: the sentences of a CV sent inline (resumeLabel 'inline')
SentenceGetEmbedding ==
    \E cvCanonical \in KeyTexts :
        LET sentences == splitSentences(cvCanonical)
        IN  \E i \in 1..Len(sentences) :
                getEmbedding(sentences[i], sentenceKey(i - 1, sentences[i]))

KeyNext ==
    \/ Tick
    \/ FullTextGetEmbedding
    \/ BulkDocGetEmbedding
    \/ SentenceGetEmbedding
    \/ LibEmbeddingCreated
    \/ LibEmbeddingFailed

KeySpec == Init /\ [][KeyNext]_vars

\* C27: a vector returned by getEmbedding(text, cacheKey) is the embedding of
\* that text: a hit never returns a vector that was computed for another text.
C27_VectorOfThatText ==
    \A i \in Gets : gets[i].state \in {"hit", "ok"} => gets[i].vec.text = gets[i].text

-----------------------------------------------------------------------------
(* routes/overview.js runMicroPrompt and routes/jd.js runJDPrompt: one prompt
   sent to the provider with retries and capability fallback *)

MaxRetries == 3

PromptFunctions == {"runMicroPrompt", "runJDPrompt"}

PromptInputs == { [route |-> "prompt", fn |-> f, maxRetries |-> m] : f \in PromptFunctions, m \in 0..MaxRetries }

\* what one openai.responses.create call and the checks after it come to
Outcomes == {"valid", "not_json", "not_object", "bad_schema", "provider_error",
             "unsupported_response_format", "unsupported_temperature"}

\* String(error?.message || error) of each failure
messageOf(outcome) ==
    CASE outcome = "not_json" -> "Unexpected token"
      [] outcome = "not_object" -> "Output is not a valid JSON object"
      [] outcome = "bad_schema" -> "Output does not match expected schema"
      [] outcome = "provider_error" -> "Request timed out"
      [] outcome = "unsupported_response_format" -> "Unsupported parameter: 'response_format'"
      [] outcome = "unsupported_temperature" -> "Unsupported parameter: 'temperature'"

\* the provider rejects a parameter only when the request carries it
possible(outcome, r) ==
    /\ outcome = "unsupported_response_format" => r.response_format
    /\ outcome = "unsupported_temperature" => r.temperature

promptSuccess == [kind |-> "result", success |-> TRUE, data |-> "parsed"]
promptFailure(maxRetries, msg) ==
    [kind |-> "result", success |-> FALSE, attempts |-> maxRetries + 1, error |-> msg]
\* the function ends without a return statement
promptUndefined == [kind |-> "undefined"]

PromptInit ==
    /\ pc = "prompt"
    /\ req \in PromptInputs
    /\ resp = NoResp
    /\ call = [attempt |-> 0, tryResponseFormat |-> TRUE, tryTemperature |-> FALSE, requests |-> <<>>]
    /\ cfg = [yoeToleranceYears |-> GATES_yoeToleranceYears]
    /\ CacheIdle

\* one pass of the for loop: the request is built and sent, its output parsed
\* and validated, and the catch block decides between continue, return and retry
promptAttempt ==
    /\ pc = "prompt"
    /\ call.attempt <= req.maxRetries
    /\ LET sentReq == [retry |-> call.attempt > 0, temperature |-> call.tryTemperature,
                       response_format |-> call.tryResponseFormat]
           sent    == Append(call.requests, sentReq)
       IN  \E outcome \in Outcomes :
            /\ possible(outcome, sentReq)
            /\ IF outcome = "valid"
               THEN /\ resp' = promptSuccess
                    /\ pc' = "done"
                    /\ call' = [call EXCEPT !.requests = sent]
               ELSE IF outcome = "unsupported_response_format" /\ call.tryResponseFormat
               THEN /\ call' = [call EXCEPT !.requests = sent, !.tryResponseFormat = FALSE,
                                            !.attempt = @ + 1]
                    /\ UNCHANGED <<pc, resp>>
               ELSE IF outcome = "unsupported_temperature" /\ call.tryTemperature
               THEN /\ call' = [call EXCEPT !.requests = sent, !.tryTemperature = FALSE,
                                            !.attempt = @ + 1]
                    /\ UNCHANGED <<pc, resp>>
               ELSE IF call.attempt = req.maxRetries
               THEN /\ resp' = promptFailure(req.maxRetries, messageOf(outcome))
                    /\ pc' = "done"
                    /\ call' = [call EXCEPT !.requests = sent]
               ELSE /\ call' = [call EXCEPT !.requests = sent, !.attempt = @ + 1]
                    /\ UNCHANGED <<pc, resp>>
    /\ UNCHANGED <<req, cfg>>
    /\ CacheUntouched

RunMicroPrompt == req.fn = "runMicroPrompt" /\ promptAttempt

RunJDPrompt == req.fn = "runJDPrompt" /\ promptAttempt

\* the loop condition fails: the function body ends
LoopEnds ==
    /\ pc = "prompt"
    /\ call.attempt > req.maxRetries
    /\ resp' = promptUndefined
    /\ pc' = "done"
    /\ UNCHANGED <<req, call, cfg>>
    /\ CacheUntouched

PromptNext == RunMicroPrompt \/ RunJDPrompt \/ LoopEnds

PromptSpec == PromptInit /\ [][PromptNext]_vars

\* C28: runMicroPrompt and runJDPrompt end after at most maxRetries + 1
\* provider calls and return { success: true, data } or { success: false, error },
\* also when an 'Unsupported parameter' error switches a capability off on the
\* last attempt.
C28_TypedResultWithinBudget ==
    (req.route = "prompt") =>
        /\ Len(call.requests) <= req.maxRetries + 1
        /\ pc = "done" => (resp.kind = "result" /\ resp.success \in BOOLEAN)

-----------------------------------------------------------------------------
(* the job term reported by a soft match *)

\* C29: in every entry softStringMatches returns, the reported original job
\* term is the one whose normal form was compared: the normal form of an
\* exact entry's left is its right, and the left of the k-th semantic entry is
\* the job term whose token was embedded k-th, also when an earlier job term
\* has a blank normal form.
C29_LeftIsComparedTerm ==
    TopReplied =>
        \A c \in termCalls :
            LET L   == normTokens(c.source)
                R   == normTokens(c.target)
                rem == SelectSeq(R, LAMBDA t : t \notin Range(L))
                seM == ofKind(c.matches, "semantic")
            IN  /\ \A p \in 1..Len(c.matches) :
                       c.matches[p].kind = "exact"
                           => normalizeToken(c.matches[p].left) = c.matches[p].right
                /\ \A k \in 1..Len(seM) : normalizeToken(seM[k].left) = rem[k]

-----------------------------------------------------------------------------
(* shared/storage.js: resumeStorage, loaded from disk at startup and saved
   after every store *)

MaxStores == 2

ResumeIds == {"r1", "r2"}
ResumeDatas == {"A", "B"}

NoFile == [kind |-> "absent"]
fileOf(stored) == [kind |-> "file", stored |-> stored]
\* a file read while a writeFile is rewriting it
PartialFile == [kind |-> "partial"]

\* the contents resume-storage.json may have when the process starts
StartFiles == {NoFile, fileOf(<<>>), fileOf(mapSet(<<>>, "r2", "old"))}

StorageInputs == { [route |-> "storage", file |-> f] : f \in StartFiles }

\* the module is loaded: loadFromDisk() has been called and awaits fs.readFile
StorageInit ==
    /\ pc = "reading"
    /\ req \in StorageInputs
    /\ resp = NoResp
    /\ call = [ resumeStorage |-> <<>>, disk |-> req.file, data |-> NoFile,
                writes |-> {}, latest |-> <<>>, stores |-> 0 ]
    /\ cfg = [yoeToleranceYears |-> GATES_yoeToleranceYears]
    /\ CacheIdle

\* fs.readFile resolves with what the file holds at that moment
ReadFile ==
    /\ pc = "reading"
    /\ \E data \in {call.disk} \cup (IF call.writes # {} THEN {PartialFile} ELSE {}) :
          call' = [call EXCEPT !.data = data]
    /\ pc' = "read"
    /\ UNCHANGED <<req, resp, cfg>>
    /\ CacheUntouched

\* what the continuation of loadFromDisk leaves in the Map: JSON.parse, then
\* clear() and one set per stored entry; nothing when readFile or JSON.parse threw
loaded(resumeStorage, data) == IF data.kind = "file" THEN data.stored ELSE resumeStorage

\* the continuation of loadFromDisk after the await
LoadFromDisk ==
    /\ pc = "read"
    /\ call' = [call EXCEPT !.resumeStorage = loaded(@, call.data)]
    /\ pc' = "loaded"
    /\ UNCHANGED <<req, resp, cfg>>
    /\ CacheUntouched

\* storeResume(resumeId, resumeData): the Map is set and saveToDisk is started,
\* which serialises the Map at once and leaves its writeFile pending
StoreResume ==
    /\ call.stores < MaxStores
    /\ req.route = "storage"
    /\ \E resumeId \in ResumeIds, resumeData \in ResumeDatas :
        LET stored == mapSet(call.resumeStorage, resumeId, resumeData)
        IN  call' = [call EXCEPT !.resumeStorage = stored,
                                 !.latest = mapSet(@, resumeId, resumeData),
                                 !.writes = @ \cup {stored},
                                 !.stores = @ + 1]
    /\ UNCHANGED <<pc, req, resp, cfg>>
    /\ CacheUntouched

\* one pending fs.writeFile completes
SaveToDisk ==
    /\ req.route = "storage"
    /\ \E stored \in call.writes :
          call' = [call EXCEPT !.disk = fileOf(stored), !.writes = @ \ {stored}]
    /\ UNCHANGED <<pc, req, resp, cfg>>
    /\ CacheUntouched

\* getResume(resumeId) for an id that storeResume was called with
GetResume ==
    /\ req.route = "storage"
    /\ \E resumeId \in DOMAIN call.latest :
          resp' = [ kind |-> "resume", resumeId |-> resumeId, stored |-> call.latest[resumeId],
                    found |-> resumeId \in DOMAIN call.resumeStorage,
                    data |-> IF resumeId \in DOMAIN call.resumeStorage
                             THEN call.resumeStorage[resumeId] ELSE "undefined" ]
    /\ UNCHANGED <<pc, req, call, cfg>>
    /\ CacheUntouched

StorageNext == ReadFile \/ LoadFromDisk \/ StoreResume \/ SaveToDisk \/ GetResume

StorageSpec == StorageInit /\ [][StorageNext]_vars

\* C30: a resume stored with storeResume is returned by getResume until it is
\* overwritten by another store, whatever the interleaving with the startup
\* loadFromDisk: a store made while loadFromDisk is reading is not lost.
C30_StoredStaysRetrievable ==
    (req.route = "storage" /\ resp.kind = "resume") => (resp.found /\ resp.data = resp.stored)

====
